---- MODULE Spec2Model ----
(***************************************************************************)
(* Model of the ak-shell batch-ingestion pipeline: the upsert gateway      *)
(* (database.py), the resumable stock-history backfill, the index          *)
(* collector with its background retry, and the news collector             *)
(* (collectors.py).                                                        *)
(*                                                                         *)
(* Representation of values:                                               *)
(*   - a 'YYYYMMDD' string is the integer 10000*Y + 100*M + D; Python's    *)
(*     comparison of two such strings is the comparison of the integers;   *)
(*   - a date object / its ISO text 'YYYY-MM-DD' is the tuple <<Y, M, D>>; *)
(*   - a table is a set of rows, a row is a record of its columns;         *)
(*   - a DataFrame / list of records is a sequence of rows.                *)
(***************************************************************************)
EXTENDS Integers, Sequences, FiniteSets, TLC

\* ------------------------------------------------------------------ bounds
\* first calendar day of the modelled window ('YYYYMMDD'); the window
\* crosses a month end so that "latest + 1 day" is not "latest + 1"
FirstDay == 20240130
\* number of consecutive calendar days in the window
NumDays == 3
\* number of stock codes returned by get_stock_list
NumStocks == 2
\* number of collect_all_stocks_history runs in one behaviour
MaxRuns == 2
\* number of upsert_dataframe calls in one behaviour of the gateway
MaxUpserts == 2
\* largest number of 1000-row storage calls one DataFrame needs
MaxBatches == 3

\* number of URLs stored in stock_news before a news run
MaxOld == 101
\* number of URLs of a feed that are not stored yet
MaxNew == 2
\* number of point lookups that raise in one news run
MaxLookupFailures == 1
\* a max_process_count large enough to examine every row of the feeds, and
\* one that cuts the short feeds
BigProcessCount == 110
SmallProcessCount == 2

\* number of background retry tasks started in one behaviour
MaxTasks == 3

\* invocations of the wrapped function a script describes; requests made
MaxOutcomes == 4
MaxRequests == 2

\* rows of a provider response
MaxRows == 2

\* stocks of the list in a paced run
PaceStocks == 110

\* entries of index_list two interleaved index collections are followed on
RaceIndexes == 3

\* stocks of the list two interleaved history runs are followed on
PairStocks == 1
\* days of the long window beyond one storage batch
ExtraDays == 2
\* stocks of the list in the restarted backfill
RestartStocks == 1
\* full pages of the largest stock_basic table tried
ListPages == 2
\* hours the clock of the retry thread runs, steps left to the main thread
MaxClock == 3
MaxSteps == 2
\* the years a calendar is requested for: CalendarYears years from FirstYear
FirstYear == 2023
CalendarYears == 2
\* ranks of a hot-rank snapshot, and snapshots collected in a run
MaxRanks == 2
MaxSnapshots == 3
\* calls of the index collector in a run of changing windows
MaxIndexCalls == 2

\* ------------------------------------------------------- program constants
\* Database.upsert_dataframe: batch_size = 1000
batch_size == 1000
\* Database.get_stock_list: page_size = 1000
page_size == 1000
\* @retry(tries=3, delay=5) on BaseCollector.safe_request
retry_tries == 3
retry_delay == 5
\* the decorator's default backoff
retry_backoff == 1
\* collect_latest_quotes: max_retries = 3, retry_delay = 300
max_retries == 3
quotes_retry_delay == 300
\* BaseCollector.__init__: self.batch_size = 50, the batch of the pacing
pace_batch_size == 50
\* BaseCollector.__init__: base_delay 0.5, random_delay 0.8, batch_delay 10.0
\* (tenths of a second)
init_base_delay == 5
init_random_delay == 8
init_batch_delay == 100
\* set_delay_config defaults: 0.2, 0.3, 2.0, batch_size 100
set_base_delay == 2
set_random_delay == 3
set_batch_delay == 20
set_batch_size == 100
\* StockNewsCollector.__init__: 0.1, 0.2, 2.0, batch_size 50
news_base_delay == 1
news_random_delay == 2
news_batch_delay == 20
news_batch_size == 50
\* StockNewsCollector.collect_news: max_process_count: int = 10
DefaultMaxProcess == 10
\* collect_news: "if duplicate_count > 100 and new_news_count == 0"
DupLimit == 100

\* IndexDataCollector.index_list has 5 entries
NumIndexes == 5
\* collect_all_indexes_history: retry_delay_hours = 1 (also main.py:98), and
\* retry_delay_hours=0 in the call made by the retry
retry_delay_hours == 1
retry_delay_again == 0
\* "current_hour < 20" and "18 <= current_hour <= 21", "weekday() >= 5"
CutoffHour == 20
RetryFromHour == 18
RetryToHour == 21
Saturday == 5

\* Python None / SQL NULL, float NaN and the empty string, as cell values
None == 0
NaN == -1
EmptyStr == -2
\* the four-letter text 'None', which is what str(None) gives
TextNone == -5

\* ----------------------------------------------------------------- dates
IsLeap(y) == (y % 4 = 0 /\ y % 100 # 0) \/ y % 400 = 0

DaysInMonth(y, m) ==
    IF m = 2 THEN (IF IsLeap(y) THEN 29 ELSE 28)
    ELSE IF m \in {4, 6, 9, 11} THEN 30 ELSE 31

\* datetime.strptime(s, '%Y%m%d')
strptime(s) == <<s \div 10000, (s \div 100) % 100, s % 100>>

\* dt.strftime('%Y%m%d')
strftime(dt) == dt[1] * 10000 + dt[2] * 100 + dt[3]

\* dt + timedelta(days=1)
PlusOneDay(dt) ==
    IF dt[3] < DaysInMonth(dt[1], dt[2]) THEN <<dt[1], dt[2], dt[3] + 1>>
    ELSE IF dt[2] < 12 THEN <<dt[1], dt[2] + 1, 1>>
    ELSE <<dt[1] + 1, 1, 1>>

\* order of two date objects (the ORDER BY of the store, pandas comparisons)
DateLeq(a, b) ==
    \/ a[1] < b[1]
    \/ a[1] = b[1] /\ a[2] < b[2]
    \/ a[1] = b[1] /\ a[2] = b[2] /\ a[3] <= b[3]

RECURSIVE DayAt(_)
\* the n-th calendar day of the window, as a date object
DayAt(n) == IF n = 1 THEN strptime(FirstDay) ELSE PlusOneDay(DayAt(n - 1))

\* the calendar days of the window, as date objects
Dates == {DayAt(n) : n \in 1..NumDays}

\* the same days as 'YYYYMMDD' request strings
DateStrs == {strftime(d) : d \in Dates}

\* ------------------------------------------------------------ the store
\* daily_quote declared with the stock code as its only conflict column
ConflictColumnsByCode(table_name) ==
    IF table_name = "daily_quote" THEN <<"stock_code">>
    ELSE IF table_name = "index_data" THEN <<"index_code">>
    ELSE <<"url">>

\* conflict_columns passed by the collectors for each table (Python lists)
ConflictColumns(table_name) ==
    IF table_name = "daily_quote" THEN <<"stock_code", "trade_date">>
    ELSE IF table_name = "index_data" THEN <<"index_code", "trade_date">>
    ELSE IF table_name = "stock_fund_flow_rank"
    THEN <<"stock_code", "indicator", "trade_date">>
    ELSE IF table_name \in {"stock_hot_rank", "stock_hot_up"}
    THEN <<"trade_date", "current_rank">>
    ELSE IF table_name = "trade_calendar" THEN <<"calendar_date">>
    ELSE <<"url">>

\* the values of the conflict columns of a row (the collectors of this
\* program declare one, two or three conflict columns for these tables)
KeyOf(row, cols) ==
    IF Len(cols) = 1 THEN <<row[cols[1]]>>
    ELSE IF Len(cols) = 2 THEN <<row[cols[1]], row[cols[2]]>>
    ELSE <<row[cols[1]], row[cols[2]], row[cols[3]]>>

Range(s) == {s[j] : j \in 1..Len(s)}

\* a plain insert, as insert_dataframe does: no conflict handling
StorageInsert(table, batch, cols) == table \cup Range(batch)

\* a write that replaces the content of the table by the batch
StorageReplaceAll(table, batch, cols) == Range(batch)

\* supabase.table(t).upsert(batch, on_conflict=cols).execute(): every row of
\* the batch replaces the stored row with the same conflict key, or is added;
\* of two rows of the batch with the same key the later one stays
StorageUpsert(table, batch, cols) ==
    LET keys == {KeyOf(batch[j], cols) : j \in 1..Len(batch)}
        kept == {r \in table : KeyOf(r, cols) \notin keys}
        news == IF Cardinality(keys) = Len(batch) THEN Range(batch)
                ELSE {batch[j] : j \in {j1 \in 1..Len(batch) :
                        \A j2 \in (j1 + 1)..Len(batch) :
                            KeyOf(batch[j2], cols) # KeyOf(batch[j1], cols)}}
    IN  kept \cup news

\* record[key] = None for '' and NaN (database.py:92-93); date cells are
\* date objects and become their ISO text (database.py:94-97)
CleanValue(v) == IF v = EmptyStr \/ v = NaN THEN None ELSE v

\* the cells the cleaning loop of upsert_dataframe assigns to
DirtyCells(row) ==
    {c \in DOMAIN row \ {"trade_date", "calendar_date", "is_trade_day"} :
        CleanValue(row[c]) # row[c]}

CleanRecord(row) ==
    IF DirtyCells(row) = {} THEN row
    ELSE [c \in DOMAIN row |->
            IF c \in DirtyCells(row) THEN CleanValue(row[c]) ELSE row[c]]

\* records[i:i + batch_size], i counted from 0
Slice(records, i) ==
    SubSeq(records, i + 1, IF i + batch_size < Len(records) THEN i + batch_size
                           ELSE Len(records))

RECURSIVE UpsertLoopContinue(_, _, _, _, _, _)
\* the loop going on to the next batch after a failed storage call
UpsertLoopContinue(records, i, table, cols, calls, failAt) ==
    IF i >= Len(records)
    THEN [ok |-> \A j \in 1..Len(calls) : calls[j].ok, table |-> table,
          calls |-> calls]
    ELSE LET batch == Slice(records, i)
             n == Len(calls) + 1
         IN  IF n = failAt
             THEN UpsertLoopContinue(records, i + batch_size, table, cols,
                      Append(calls, [rows |-> batch, ok |-> FALSE]), failAt)
             ELSE UpsertLoopContinue(records, i + batch_size,
                      StorageUpsert(table, batch, cols), cols,
                      Append(calls, [rows |-> batch, ok |-> TRUE]), failAt)

RECURSIVE UpsertLoop(_, _, _, _, _, _)
\* the loop "for i in range(0, len(records), batch_size)" of upsert_dataframe;
\* failAt is the number of the storage call that raises (0: none raises)
UpsertLoop(records, i, table, cols, calls, failAt) ==
    IF i >= Len(records) THEN [ok |-> TRUE, table |-> table, calls |-> calls]
    ELSE LET batch == Slice(records, i)
             n == Len(calls) + 1
         IN  IF n = failAt
             THEN [ok |-> FALSE, table |-> table,
                   calls |-> Append(calls, [rows |-> batch, ok |-> FALSE])]
             ELSE UpsertLoop(records, i + batch_size,
                             StorageUpsert(table, batch, cols), cols,
                             Append(calls, [rows |-> batch, ok |-> TRUE]), failAt)

\* Database.upsert_dataframe(df, table_name, conflict_columns)
upsert_dataframe(df, table, cols, failAt) ==
    IF Len(df) = 0 THEN [ok |-> TRUE, table |-> table, calls |-> <<>>]
    ELSE UpsertLoop([j \in 1..Len(df) |-> CleanRecord(df[j])], 0, table, cols,
                    <<>>, failAt)

\* number of storage calls a DataFrame of n rows needs
NumCalls(n) == (n + batch_size - 1) \div batch_size


\* ------------------------------------------------------------ variables
VARIABLES
    \* table daily_quote: rows [stock_code, trade_date, close]
    daily_quote,
    \* upsert gateway driven directly: the DataFrame of the last
    \* upsert_dataframe call, the table before it, its storage calls in
    \* order (rows sent, outcome), its return value, the number of calls made
    g_df, g_before, g_calls, g_ok, g_count,
    \* which caller drives the gateway in this behaviour: the bulk snapshot
    \* ("snapshot") or a caller sending a few rows at a time ("rows")
    g_caller,
    \* the provider's trading days (the days stock_zh_a_hist has a row for)
    market,
    \* collect_all_stocks_history: position, arguments, loop index i,
    \* start_date_for_stock, safe_request attempts made, success_count,
    \* skip_count, return value, number of runs started
    h_pc, h_req, h_i, h_start, h_attempt, success_count, skip_count,
    h_result, h_runs,
    \* per stock, what the current run did: the latest persisted trade_date
    \* when the start was resolved, the value get_latest_date returned, whether
    \* the stock was skipped, the (start, end) of every stock_zh_a_hist call,
    \* the rows handed to upsert, the provider rows of the last answer
    h_log,
    \* table stock_news: rows [url, tag, create_time]
    stock_news,
    \* collect_news: position, the provider's feed, max_process_count, number
    \* of rows examined, processed_urls, processed_news, new_news_count,
    \* duplicate_count, return value
    n_pc, n_feed, n_max, n_idx, processed_urls, processed_news,
    new_news_count, duplicate_count, n_result,
    \* what happened to each examined row, in order: "dup" (in processed_urls),
    \* "found" (the lookup found the URL), "absent" (the lookup found nothing),
    \* "raised" (the lookup raised), "nourl" (the row has no URL text)
    n_log,
    \* what the run did about old rows: "none" (_cleanup_old_news not called),
    \* "deleted", "failed" (the delete raised and was logged)
    n_cleanup,
    \* table index_data: rows [index_code, trade_date, close]
    index_data,
    \* datetime.now(): hour of the day and weekday (0 = Monday); whether the
    \* provider has published today's index rows
    i_hour, i_weekday, i_published,
    \* the running call of collect_all_indexes_history: position, caller
    \* ("main" or "retry", the background thread), arguments, loop index,
    \* success_count, has_data_count
    i_pc, i_ctx, i_req, i_i, i_success_count, has_data_count,
    \* the sleeping background thread (<<>>: none) and the number of
    \* background threads started so far
    i_timer, i_sched,
    \* the outcome of the original call: hour of its decision, its counts,
    \* its return value, the number of rows it handed to upsert
    i_main,
    \* safe_request: position, the outcomes of the wrapped function at its
    \* successive invocations, the number of invocations made, _tries, _delay,
    \* what happened in order (Invoked, or the seconds slept), the value
    \* returned or the exception raised, the number of requests made
    r_pc, r_script, r_calls, r_tries, r_delay, r_events, r_out, r_count,
    \* one call of a single-fetch collector: position, the collector, the
    \* provider's response, whether safe_request returned, whether the
    \* normalisation raised, the records handed to the storage, the return
    \* value, the collector's table
    c_pc, c_name, c_response, c_fetched, c_raised, c_sent, c_result, c_table,
    \* table stock_fund_flow_rank: rows [stock_code, stock_name, indicator,
    \* trade_date]; the stock codes of stock_basic
    stock_fund_flow_rank, f_basic,
    \* collect_fund_flow_rank: position, the indicator's place in the list,
    \* overall_success, per indicator handled what happened (the outcome, the
    \* provider's response, the codes get_stock_list gave, the DataFrame
    \* handed to upsert), return value
    f_pc, f_k, overall_success, f_log, f_result,
    \* the running job ("today", "news", "index_retry") and its position
    t_job, t_pc,
    \* collect_latest_quotes: attempts made, what happened in order (BatchCall,
    \* or the seconds slept), what each call of the batch collector did
    t_attempt, t_qevents, t_qlog,
    \* the job's success flags, the steps it has finished in order, what each
    \* collector call did, overall_success, the notifier call that closed the
    \* job and its result, whether an exception left the job
    t_success, t_events, t_log, t_overall, t_notified, t_propagated,
    \* the loop of collect_all_stocks_history seen by the pacing: position,
    \* enable_resume, loop index i, history fetches issued since the last
    \* batch_delay pause, pauses taken, stocks skipped
    p_pc, p_resume, p_i, p_run, p_pauses, p_skipped,
    \* the pacing configuration of each collector instance (base_delay,
    \* random_delay, batch_delay in tenths of a second, batch_size) and the
    \* last call made on an instance: set_delay_config with its arguments, or
    \* smart_delay with its index, the two sleeps it took
    d_cfg, d_op,
    \* a multi-entity run seen by its counts: position, the collector
    \* ("stocks" or "indexes"), loop index, success_count, has_data_count, the
    \* rows the storage accepted during the run, what each entity did in
    \* order, the return value
    m_pc, m_kind, m_i, m_success_count, m_has_data_count, m_written, m_log,
    m_result,
    \* two calls of collect_all_indexes_history for today running at the same
    \* time, the background retry and a manual one; per call: position, loop
    \* index, the DataFrame fetched and not yet upserted, success_count,
    \* has_data_count, the rows its upserts were accepted with, return value
    x_pc, x_i, x_df, x_success_count, x_has_data_count, x_written, x_result,
    \* the call that wrote the storage last and the number of times the
    \* storage was written by a call other than the one that wrote before
    x_last, x_switches,
    \* two calls of collect_all_stocks_history(S, E, enable_resume=True)
    \* running at the same time: the request, daily_quote before them, and per
    \* call: position, loop index, start_date_for_stock, the DataFrame fetched
    \* and not yet upserted, success_count, return value
    y_req, y_before, y_pc, y_i, y_start, y_df, y_success_count, y_result,
    \* per call and stock: the value get_latest_date returned, whether the
    \* stock was skipped, the window fetched, whether the upsert was accepted
    y_log,
    \* one call of a collector entry point followed through the calls it
    \* makes: the entry point, position ("running", "returned", "escaped"),
    \* the place of the next call in its list, the places of the calls that
    \* failed, the items of its loop that succeeded, the value returned
    b_entry, b_pc, b_k, b_failed, b_good, b_out,
    \* --- the daily latest-quote collection beside the backfills ---
    \* calls of collect_latest_quotes_batch made so far
    k_calls,
    \* what the last call returned
    k_result,
    \* --- a backfill of more than one storage batch, and its resumed run ---
    \* the order in which the provider returns the rows
    z_order,
    \* the request [start_date, end_date] of both runs
    z_req,
    \* the run (1: first, 2: resumed) and its position
    z_run, z_pc,
    \* index into the stock list, start_date_for_stock, fetched DataFrame
    z_i, z_start, z_df,
    z_success_count, z_result,
    \* per run and stock: "none", "skipped", "nofetch" (the fetch gave up),
    \* "empty", "ok", "partial" (some batches committed, then a failure),
    \* "failed" (the first batch failed)
    z_log,
    \* --- the day-over-day change of the index collector ---
    \* the provider's closes: day number -> variation of the close
    e_close,
    \* calls of collect_index_history_with_data_check made so far
    e_calls,
    \* the last call: its request, the DataFrame it sent to upsert, the
    \* index_data table before it, its result
    e_req, e_sent, e_before, e_result,
    \* --- the hot-rank and hot-up snapshots ---
    \* tables stock_hot_rank and stock_hot_up: rows [trade_date,
    \* current_rank, stock_code]
    stock_hot_rank, stock_hot_up,
    \* datetime.now().date() as a day number of the window
    o_today,
    \* calls made so far, and the last call: collector, DataFrame sent to
    \* upsert, day, result
    o_calls, o_last,
    \* --- the trade calendar collector ---
    \* table trade_calendar: rows [calendar_date, is_trade_day]
    trade_calendar,
    \* position of the call, its arguments, the provider's trade dates, the
    \* DataFrame sent to upsert, the table before the call, the result
    q_pc, q_req, q_answer, q_fetched, q_sent, q_before, q_result,
    \* --- the background retry thread and the process that started it ---
    \* how the process was started: "run" (run.py, exits after its steps) or
    \* "scheduler" (scheduler.py, loops for ever)
    j_mode,
    \* hours passed, whether the process is alive, the steps the main
    \* thread still has to make, turns of the scheduler loop (mod 2)
    j_clock, j_alive, j_steps, j_loops,
    \* the retry thread: state "none", "sleeping", "collecting" or
    \* "finished", the arguments it was started with, the hour it wakes
    j_thread,
    \* the call the thread made and the indexes it fetched in it
    j_call, j_i, j_fetched,
    \* retries started so far
    j_sched,
    \* --- the paging of get_stock_list ---
    \* the number of rows of stock_basic (their codes are 1..u_rows)
    u_rows,
    \* position of the call, offset, the codes read so far, the orders the
    \* store answered the page reads in, whether a read failed, the result
    u_pc, u_offset, all_stocks, u_orders, u_failed, u_result

gVars == <<g_df, g_before, g_calls, g_ok, g_count, g_caller>>
hVars == <<market, h_pc, h_req, h_i, h_start, h_attempt, success_count,
           skip_count, h_result, h_runs, h_log>>
nVars == <<n_pc, n_feed, n_max, n_idx, processed_urls, processed_news,
           new_news_count, duplicate_count, n_result, n_log, n_cleanup>>
iVars == <<i_hour, i_weekday, i_published, i_pc, i_ctx, i_req, i_i,
           i_success_count, has_data_count, i_timer, i_sched, i_main>>
rVars == <<r_pc, r_script, r_calls, r_tries, r_delay, r_events, r_out, r_count>>
cVars == <<c_pc, c_name, c_response, c_fetched, c_raised, c_sent, c_result,
           c_table>>
fVars == <<stock_fund_flow_rank, f_basic, f_pc, f_k, overall_success, f_log,
           f_result>>
tVars == <<t_job, t_pc, t_attempt, t_qevents, t_qlog, t_success, t_events,
           t_log, t_overall, t_notified, t_propagated>>
pVars == <<p_pc, p_resume, p_i, p_run, p_pauses, p_skipped>>
dVars == <<d_cfg, d_op>>
mVars == <<m_pc, m_kind, m_i, m_success_count, m_has_data_count, m_written,
           m_log, m_result>>
xVars == <<x_pc, x_i, x_df, x_success_count, x_has_data_count, x_written,
           x_result, x_last, x_switches>>
yVars == <<y_req, y_before, y_pc, y_i, y_start, y_df, y_success_count,
           y_result, y_log>>
bVars == <<b_entry, b_pc, b_k, b_failed, b_good, b_out>>
kVars == <<k_calls, k_result>>
zVars == <<z_order, z_req, z_run, z_pc, z_i, z_start, z_df, z_success_count,
           z_result, z_log>>
eVars == <<e_close, e_calls, e_req, e_sent, e_before, e_result>>
oVars == <<stock_hot_rank, stock_hot_up, o_today, o_calls, o_last>>
qVars == <<trade_calendar, q_pc, q_req, q_answer, q_fetched, q_sent, q_before,
           q_result>>
jVars == <<j_mode, j_clock, j_alive, j_steps, j_loops, j_thread, j_call, j_i,
           j_fetched, j_sched>>
uVars == <<u_rows, u_pc, u_offset, all_stocks, u_orders, u_failed, u_result>>
vars == <<daily_quote, gVars, hVars, stock_news, nVars, index_data, iVars,
          rVars, cVars, fVars, tVars, pVars, dVars, mVars, xVars, yVars,
          bVars, kVars, zVars, eVars, oVars, qVars, jVars, uVars>>

\* what the actions of one collector leave alone
gFrame == <<hVars, stock_news, nVars, index_data, iVars, rVars, cVars, fVars,
            tVars, pVars, dVars, mVars, xVars, yVars, bVars, kVars, zVars,
            eVars, oVars, qVars, jVars, uVars>>
hFrame == <<gVars, stock_news, nVars, index_data, iVars, rVars, cVars, fVars,
            tVars, pVars, dVars, mVars, xVars, yVars, bVars, kVars, zVars,
            eVars, oVars, qVars, jVars, uVars>>
nFrame == <<daily_quote, gVars, hVars, index_data, iVars, rVars, cVars, fVars,
            tVars, pVars, dVars, mVars, xVars, yVars, bVars, kVars, zVars,
            eVars, oVars, qVars, jVars, uVars>>
iFrame == <<daily_quote, gVars, hVars, stock_news, nVars, rVars, cVars, fVars,
            tVars, pVars, dVars, mVars, xVars, yVars, bVars, kVars, zVars,
            eVars, oVars, qVars, jVars, uVars>>
rFrame == <<daily_quote, gVars, hVars, stock_news, nVars, index_data, iVars,
            cVars, fVars, tVars, pVars, dVars, mVars, xVars, yVars, bVars,
            kVars, zVars, eVars, oVars, qVars, jVars, uVars>>
cFrame == <<daily_quote, gVars, hVars, stock_news, nVars, index_data, iVars,
            rVars, fVars, tVars, pVars, dVars, mVars, xVars, yVars, bVars,
            kVars, zVars, eVars, oVars, qVars, jVars, uVars>>
fFrame == <<daily_quote, gVars, hVars, stock_news, nVars, index_data, iVars,
            rVars, cVars, tVars, pVars, dVars, mVars, xVars, yVars, bVars,
            kVars, zVars, eVars, oVars, qVars, jVars, uVars>>
tFrame == <<gVars, hVars, stock_news, nVars, index_data, iVars, rVars, cVars,
            fVars, pVars, dVars, mVars, xVars, yVars, bVars, kVars, zVars,
            eVars, oVars, qVars, jVars, uVars>>
pFrame == <<daily_quote, gVars, hVars, stock_news, nVars, index_data, iVars,
            rVars, cVars, fVars, tVars, dVars, mVars, xVars, yVars, bVars,
            kVars, zVars, eVars, oVars, qVars, jVars, uVars>>
dFrame == <<daily_quote, gVars, hVars, stock_news, nVars, index_data, iVars,
            rVars, cVars, fVars, tVars, pVars, mVars, xVars, yVars, bVars,
            kVars, zVars, eVars, oVars, qVars, jVars, uVars>>
mFrame == <<daily_quote, gVars, hVars, stock_news, nVars, index_data, iVars,
            rVars, cVars, fVars, tVars, pVars, dVars, xVars, yVars, bVars,
            kVars, zVars, eVars, oVars, qVars, jVars, uVars>>
xFrame == <<daily_quote, gVars, hVars, stock_news, nVars, iVars, rVars, cVars,
            fVars, tVars, pVars, dVars, mVars, yVars, bVars, kVars, zVars,
            eVars, oVars, qVars, jVars, uVars>>
yFrame == <<gVars, hVars, stock_news, nVars, index_data, iVars, rVars, cVars,
            fVars, tVars, pVars, dVars, mVars, xVars, bVars, kVars, zVars,
            eVars, oVars, qVars, jVars, uVars>>
bFrame == <<daily_quote, gVars, hVars, stock_news, nVars, index_data, iVars,
            rVars, cVars, fVars, tVars, pVars, dVars, mVars, xVars, yVars,
            kVars, zVars, eVars, oVars, qVars, jVars, uVars>>
kFrame == <<gVars, hVars, stock_news, nVars, index_data, iVars, rVars, cVars,
            fVars, tVars, pVars, dVars, mVars, xVars, yVars, bVars, zVars,
            eVars, oVars, qVars, jVars, uVars>>
zFrame == <<gVars, hVars, stock_news, nVars, index_data, iVars, rVars, cVars,
            fVars, tVars, pVars, dVars, mVars, xVars, yVars, bVars, kVars,
            eVars, oVars, qVars, jVars, uVars>>
eFrame == <<daily_quote, gVars, hVars, stock_news, nVars, iVars, rVars, cVars,
            fVars, tVars, pVars, dVars, mVars, xVars, yVars, bVars, kVars,
            zVars, oVars, qVars, jVars, uVars>>
oFrame == <<daily_quote, gVars, hVars, stock_news, nVars, index_data, iVars,
            rVars, cVars, fVars, tVars, pVars, dVars, mVars, xVars, yVars,
            bVars, kVars, zVars, eVars, qVars, jVars, uVars>>
qFrame == <<daily_quote, gVars, hVars, stock_news, nVars, index_data, iVars,
            rVars, cVars, fVars, tVars, pVars, dVars, mVars, xVars, yVars,
            bVars, kVars, zVars, eVars, oVars, jVars, uVars>>
jFrame == <<daily_quote, gVars, hVars, stock_news, nVars, index_data, iVars,
            rVars, cVars, fVars, tVars, pVars, dVars, mVars, xVars, yVars,
            bVars, kVars, zVars, eVars, oVars, qVars, uVars>>
uFrame == <<daily_quote, gVars, hVars, stock_news, nVars, index_data, iVars,
            rVars, cVars, fVars, tVars, pVars, dVars, mVars, xVars, yVars,
            bVars, kVars, zVars, eVars, oVars, qVars, jVars>>

\* ----------------------------------------------------- the upsert gateway
\* datetime.now().date() of the gateway runs: the last day of the window
Today == DayAt(NumDays)

\* a bulk snapshot of n stocks (the shape collect_latest_quotes_batch sends)
Snapshot(n, v) ==
    [j \in 1..n |-> [stock_code |-> j, trade_date |-> Today, close |-> v]]

\* rows of small DataFrames: few keys, several values, also NaN and ''
SmallRows ==
    [stock_code : 1..2, trade_date : {Today}, close : {1, 2, NaN}]

\* the two snapshots carry different prices, so that one overwrites the other
SnapshotFrames ==
    {Snapshot(MaxBatches * batch_size - batch_size \div 2, 1),
     Snapshot((MaxBatches - 1) * batch_size, 2)}

RowFrames ==
    {<<r>> : r \in SmallRows}
        \cup {<<r1, r2>> : r1 \in SmallRows, r2 \in SmallRows}
        \cup {<<>>}

Frames(caller) == IF caller = "snapshot" THEN SnapshotFrames ELSE RowFrames

gIdle ==
    /\ g_df = <<>> /\ g_before = {} /\ g_calls = <<>> /\ g_ok = TRUE
    /\ g_count = 0 /\ g_caller = "off"

hIdle ==
    /\ market = {} /\ h_pc = "off" /\ h_req = <<>> /\ h_i = 0 /\ h_start = None
    /\ h_attempt = 0 /\ success_count = 0 /\ skip_count = 0
    /\ h_result = FALSE /\ h_runs = 0 /\ h_log = <<>>

nIdle ==
    /\ stock_news = {}
    /\ n_pc = "off" /\ n_feed = <<>> /\ n_max = 0 /\ n_idx = 0
    /\ processed_urls = {} /\ processed_news = <<>> /\ new_news_count = 0
    /\ duplicate_count = 0 /\ n_result = FALSE /\ n_log = <<>>
    /\ n_cleanup = "none"

NoMain == [done |-> FALSE, hour |-> 0, s |-> 0, h |-> 0, result |-> FALSE,
           rows |-> 0]

iIdle ==
    /\ index_data = {}
    /\ i_hour = 0 /\ i_weekday = 0 /\ i_published = FALSE
    /\ i_pc = "off" /\ i_ctx = "main" /\ i_req = <<>> /\ i_i = 0
    /\ i_success_count = 0 /\ has_data_count = 0
    /\ i_timer = <<>> /\ i_sched = 0 /\ i_main = NoMain

rIdle ==
    /\ r_pc = "off" /\ r_script = <<>> /\ r_calls = 0 /\ r_tries = 0
    /\ r_delay = 0 /\ r_events = <<>> /\ r_out = None /\ r_count = 0

cIdle ==
    /\ c_pc = "off" /\ c_name = "" /\ c_response = <<>> /\ c_fetched = FALSE
    /\ c_raised = FALSE /\ c_sent = <<>> /\ c_result = FALSE /\ c_table = {}

fIdle ==
    /\ stock_fund_flow_rank = {} /\ f_basic = {}
    /\ f_pc = "off" /\ f_k = 0 /\ overall_success = TRUE /\ f_log = <<>>
    /\ f_result = FALSE

tIdle ==
    /\ t_job = "" /\ t_pc = "off" /\ t_attempt = 0 /\ t_qevents = <<>>
    /\ t_qlog = <<>> /\ t_success = <<>> /\ t_events = <<>> /\ t_log = <<>>
    /\ t_overall = FALSE /\ t_notified = <<>> /\ t_propagated = FALSE

pIdle ==
    /\ p_pc = "off" /\ p_resume = FALSE /\ p_i = 0 /\ p_run = 0
    /\ p_pauses = 0 /\ p_skipped = 0

NoOp == [op |-> "none", inst |-> "", cfg |-> <<>>, index |-> 0, slept |-> 0,
         paused |-> 0]

dIdle ==
    /\ d_cfg = <<>> /\ d_op = NoOp

mIdle ==
    /\ m_pc = "off" /\ m_kind = "" /\ m_i = 0 /\ m_success_count = 0
    /\ m_has_data_count = 0 /\ m_written = 0 /\ m_log = <<>>
    /\ m_result = FALSE

xIdle ==
    /\ x_pc = <<>> /\ x_i = <<>> /\ x_df = <<>> /\ x_success_count = <<>>
    /\ x_has_data_count = <<>> /\ x_written = <<>> /\ x_result = <<>>
    /\ x_last = "" /\ x_switches = 0

yIdle ==
    /\ y_req = <<>> /\ y_before = {} /\ y_pc = <<>> /\ y_i = <<>>
    /\ y_start = <<>> /\ y_df = <<>> /\ y_success_count = <<>>
    /\ y_result = <<>> /\ y_log = <<>>

bIdle ==
    /\ b_entry = "" /\ b_pc = "off" /\ b_k = 0 /\ b_failed = {}
    /\ b_good = 0 /\ b_out = FALSE

kIdle ==
    /\ k_calls = 0 /\ k_result = FALSE

zIdle ==
    /\ z_order = "" /\ z_req = <<>> /\ z_run = 0 /\ z_pc = "off" /\ z_i = 0
    /\ z_start = None /\ z_df = <<>> /\ z_success_count = 0
    /\ z_result = FALSE /\ z_log = <<>>

eIdle ==
    /\ e_close = <<>> /\ e_calls = 0 /\ e_req = <<>> /\ e_sent = <<>>
    /\ e_before = {} /\ e_result = <<>>

oIdle ==
    /\ stock_hot_rank = {} /\ stock_hot_up = {} /\ o_today = 0
    /\ o_calls = 0 /\ o_last = <<>>

qIdle ==
    /\ trade_calendar = {} /\ q_pc = "off" /\ q_req = <<>> /\ q_answer = {}
    /\ q_fetched = FALSE /\ q_sent = <<>> /\ q_before = {}
    /\ q_result = FALSE

jIdle ==
    /\ j_mode = "" /\ j_clock = 0 /\ j_alive = FALSE /\ j_steps = 0
    /\ j_loops = 0 /\ j_thread = <<>> /\ j_call = <<>> /\ j_i = 0
    /\ j_fetched = {} /\ j_sched = 0

uIdle ==
    /\ u_rows = 0 /\ u_pc = "off" /\ u_offset = 0 /\ all_stocks = <<>>
    /\ u_orders = <<>> /\ u_failed = FALSE /\ u_result = <<>>

\* db.upsert_dataframe(df, 'daily_quote', ['stock_code', 'trade_date'])
UpsertCall(df, failAt) ==
    /\ g_count < MaxUpserts
    /\ failAt \in 0..NumCalls(Len(df))
    /\ LET res == upsert_dataframe(df, daily_quote,
                                   ConflictColumns("daily_quote"), failAt)
       IN  /\ daily_quote' = res.table
           /\ g_calls' = res.calls
           /\ g_ok' = res.ok
    /\ g_df' = df
    /\ g_before' = daily_quote
    /\ g_count' = g_count + 1
    /\ UNCHANGED <<g_caller, gFrame>>

InitGateway ==
    /\ daily_quote = {}
    /\ g_df = <<>> /\ g_before = {} /\ g_calls = <<>> /\ g_ok = TRUE
    /\ g_count = 0 /\ g_caller \in {"snapshot", "rows"}
    /\ hIdle /\ nIdle /\ iIdle
    /\ rIdle
    /\ cIdle
    /\ fIdle
    /\ tIdle
    /\ pIdle
    /\ dIdle
    /\ mIdle
    /\ xIdle
    /\ yIdle
    /\ bIdle
    /\ kIdle
    /\ zIdle
    /\ eIdle
    /\ oIdle
    /\ qIdle
    /\ jIdle
    /\ uIdle

NextGateway ==
    \E df \in Frames(g_caller) : \E failAt \in 0..MaxBatches : UpsertCall(df, failAt)

SpecGateway == InitGateway /\ [][NextGateway]_vars


\* ------------------------------------- collect_all_stocks_history
\* db.get_stock_list(): the stock codes of stock_basic
StockList == [j \in 1..NumStocks |-> j]

\* the latest trade_date stored for a stock, as 'YYYYMMDD' (None: no row)
PersistedLatest(table, stock_code) ==
    LET ds == {r.trade_date : r \in {q \in table : q.stock_code = stock_code}}
    IN  IF ds = {} THEN None
        ELSE strftime(CHOOSE d \in ds : \A e \in ds : DateLeq(e, d))

\* Database.get_latest_date('daily_quote', 'trade_date', stock_code); a
\* storage error is caught and answered with None
get_latest_date(table, stock_code, readOk) ==
    IF readOk THEN PersistedLatest(table, stock_code) ELSE None

\* the "continue" of the resume check, as a value of start_date_for_stock
SkipStock == -1

\* the resume check skipping only when the latest date is past the end date
ResolveStartStrict(latest_date, start_date, end_date) ==
    IF latest_date # None
    THEN IF end_date # None /\ latest_date > end_date THEN SkipStock
         ELSE LET resume_start_date == strftime(PlusOneDay(strptime(latest_date)))
              IN  IF resume_start_date > start_date THEN resume_start_date
                  ELSE start_date
    ELSE start_date

\* the resume check taking the earlier of the two start dates
ResolveStartEarlier(latest_date, start_date, end_date) ==
    IF latest_date # None
    THEN IF end_date # None /\ latest_date >= end_date THEN SkipStock
         ELSE LET resume_start_date == strftime(PlusOneDay(strptime(latest_date)))
              IN  IF resume_start_date > start_date THEN start_date
                  ELSE resume_start_date
    ELSE start_date

\* the resume check skipping a stock whose watermark it could not read
ResolveStartNoneSkips(latest_date, start_date, end_date) ==
    IF latest_date # None
    THEN IF end_date # None /\ latest_date >= end_date THEN SkipStock
         ELSE LET resume_start_date == strftime(PlusOneDay(strptime(latest_date)))
              IN  IF resume_start_date > start_date THEN resume_start_date
                  ELSE start_date
    ELSE SkipStock

\* the resume check of collect_all_stocks_history: SkipStock or the value of
\* start_date_for_stock
ResolveStart(latest_date, start_date, end_date) ==
    IF latest_date # None
    THEN IF end_date # None /\ latest_date >= end_date THEN SkipStock
         ELSE LET resume_start_date == strftime(PlusOneDay(strptime(latest_date)))
              IN  IF resume_start_date > start_date THEN resume_start_date
                  ELSE start_date
    ELSE start_date

\* ak.stock_zh_a_hist(symbol, start_date, end_date): one row per trading
\* day of the range, oldest first; price is the close quoted in this answer
ProviderRows(symbol, start_date, end_date, price) ==
    LET days == SelectSeq([n \in 1..NumDays |-> DayAt(n)],
                    LAMBDA d : /\ d \in market
                               /\ start_date <= strftime(d)
                               /\ strftime(d) <= end_date)
    IN  [j \in 1..Len(days) |->
            [stock_code |-> symbol, trade_date |-> days[j], close |-> price]]

\* the trading calendars tried: every day of the window is a trading day, or
\* all but one
Markets == {Dates} \cup {Dates \ {d} : d \in Dates}

NoLog ==
    [resolved |-> FALSE, L |-> None, seen |-> None, skipped |-> FALSE,
     fetches |-> {}, answered |-> FALSE, rows |-> {}, ok |-> FALSE]

\* a call of collect_all_stocks_history(start_date, end_date, enable_resume),
\* up to the stock list read (collectors.py:270-278)
StartRun(start_date, end_date, enable_resume, listOk) ==
    /\ h_pc \in {"idle", "done"}
    /\ h_runs < MaxRuns
    /\ start_date <= end_date
    /\ h_runs' = h_runs + 1
    /\ h_req' = [start_date |-> start_date, end_date |-> end_date,
                 enable_resume |-> enable_resume]
    /\ h_log' = [s \in 1..NumStocks |-> NoLog]
    /\ success_count' = 0 /\ skip_count' = 0 /\ h_start' = None
    /\ h_attempt' = 0
    /\ IF listOk
       THEN h_pc' = "resolve" /\ h_i' = 1 /\ h_result' = FALSE
       ELSE h_pc' = "done" /\ h_i' = 0 /\ h_result' = FALSE
    /\ UNCHANGED <<daily_quote, market, hFrame>>

\* the resume check for stock i of the list (collectors.py:279-301)
Resolve(readOk) ==
    /\ h_pc = "resolve" /\ h_i <= NumStocks
    /\ (~h_req.enable_resume => readOk)
    /\ LET s == StockList[h_i]
           latest_date == IF h_req.enable_resume
                          THEN get_latest_date(daily_quote, s, readOk)
                          ELSE None
           start == ResolveStart(latest_date, h_req.start_date, h_req.end_date)
           noted == [h_log[s] EXCEPT !.resolved = TRUE,
                                     !.L = PersistedLatest(daily_quote, s),
                                     !.seen = latest_date]
       IN  IF start = SkipStock
           THEN /\ skip_count' = skip_count + 1
                /\ h_i' = h_i + 1
                /\ h_log' = [h_log EXCEPT ![s] = [noted EXCEPT !.skipped = TRUE]]
                /\ UNCHANGED <<h_pc, h_start>>
           ELSE /\ h_start' = start
                /\ h_pc' = "fetch"
                /\ h_log' = [h_log EXCEPT ![s] = noted]
                /\ UNCHANGED <<skip_count, h_i>>
    /\ h_attempt' = 0
    /\ UNCHANGED <<daily_quote, market, hFrame, h_req, success_count, h_result,
                   h_runs>>

\* a raising attempt whose exhaustion ends the whole run
FetchRaisesAbort ==
    /\ h_pc = "fetch"
    /\ LET s == StockList[h_i]
       IN  h_log' = [h_log EXCEPT ![s].fetches =
                        @ \cup {<<h_start, h_req.end_date>>}]
    /\ IF h_attempt + 1 < retry_tries
       THEN /\ h_attempt' = h_attempt + 1
            /\ UNCHANGED <<h_pc, h_i, h_start>>
       ELSE /\ h_attempt' = 0
            /\ h_pc' = "done" /\ h_i' = h_i + 1 /\ h_start' = None
    /\ UNCHANGED <<daily_quote, market, hFrame, h_req, success_count,
                   skip_count, h_result, h_runs>>

\* one attempt of safe_request(ak.stock_zh_a_hist, ...) in
\* collect_stock_history that raises (collectors.py:50-57, 205-212, 259-261)
FetchRaises ==
    /\ h_pc = "fetch"
    /\ LET s == StockList[h_i]
       IN  h_log' = [h_log EXCEPT ![s].fetches =
                        @ \cup {<<h_start, h_req.end_date>>}]
    /\ IF h_attempt + 1 < retry_tries
       THEN /\ h_attempt' = h_attempt + 1
            /\ UNCHANGED <<h_pc, h_i, h_start>>
       ELSE /\ h_attempt' = 0
            /\ h_pc' = "resolve" /\ h_i' = h_i + 1 /\ h_start' = None
    /\ UNCHANGED <<daily_quote, market, hFrame, h_req, success_count,
                   skip_count, h_result, h_runs>>

\* an attempt that answers, and the rest of collect_stock_history: rename,
\* clean, upsert (collectors.py:205-257), then the caller's count (304-305)
FetchAnswers(failAt) ==
    /\ h_pc = "fetch"
    /\ LET s == StockList[h_i]
           df == ProviderRows(s, h_start, h_req.end_date, h_runs)
           res == upsert_dataframe(df, daily_quote,
                                   ConflictColumns("daily_quote"), failAt)
           success == IF Len(df) = 0 THEN TRUE ELSE res.ok
       IN  /\ failAt \in 0..NumCalls(Len(df))
           /\ daily_quote' = res.table
           /\ success_count' = IF success THEN success_count + 1
                               ELSE success_count
           /\ h_log' = [h_log EXCEPT
                  ![s].fetches = @ \cup {<<h_start, h_req.end_date>>},
                  ![s].answered = TRUE,
                  ![s].rows = Range(df),
                  ![s].ok = success]
    /\ h_attempt' = 0
    /\ h_pc' = "resolve" /\ h_i' = h_i + 1 /\ h_start' = None
    /\ UNCHANGED <<market, hFrame, h_req, skip_count, h_result, h_runs>>

\* the end of the loop: return success_count > 0 (collectors.py:314-315)
FinishRun ==
    /\ h_pc = "resolve" /\ h_i > NumStocks
    /\ h_pc' = "done"
    /\ h_result' = (success_count > 0)
    /\ UNCHANGED <<daily_quote, market, hFrame, h_req, h_i, h_start, h_attempt,
                   success_count, skip_count, h_runs, h_log>>

InitHistory ==
    /\ daily_quote = {}
    /\ gIdle
    /\ market \in Markets
    /\ h_pc = "idle" /\ h_req = <<>> /\ h_i = 0 /\ h_start = None
    /\ h_attempt = 0 /\ success_count = 0 /\ skip_count = 0
    /\ h_result = FALSE /\ h_runs = 0
    /\ h_log = [s \in 1..NumStocks |-> NoLog]
    /\ nIdle /\ iIdle
    /\ rIdle
    /\ cIdle
    /\ fIdle
    /\ tIdle
    /\ pIdle
    /\ dIdle
    /\ mIdle
    /\ xIdle
    /\ yIdle
    /\ bIdle
    /\ kIdle
    /\ zIdle
    /\ eIdle
    /\ oIdle
    /\ qIdle
    /\ jIdle
    /\ uIdle

NextHistory ==
    \/ \E S \in DateStrs, E \in DateStrs, r \in BOOLEAN, l \in BOOLEAN :
          StartRun(S, E, r, l)
    \/ \E readOk \in BOOLEAN : Resolve(readOk)
    \/ FetchRaises
    \/ \E failAt \in 0..1 : FetchAnswers(failAt)
    \/ FinishRun

SpecHistory == InitHistory /\ [][NextHistory]_vars

\* ---------------------------------------------------------- collect_news
\* create_time values: written now, and written more than a week ago
Now == 1
LongAgo == 0

\* the URLs of stock_news before the run are 1..MaxOld, URL 1 being more
\* than a week old
StoredNews ==
    {[url |-> u, tag |-> 0, create_time |-> IF u = 1 THEN LongAgo ELSE Now] :
        u \in 1..MaxOld}

\* a feed of k stored URLs followed by m URLs that are not stored
OldThenNew(k, m) ==
    [j \in 1..(k + m) |->
        [url |-> IF j <= k THEN j ELSE MaxOld + (j - k), tag |-> 1]]

\* short feeds in any order, with repeated URLs
MixedUrls == {1, 2, MaxOld + 1}

MixedFeeds ==
    LET rows == {[url |-> u, tag |-> 1] : u \in MixedUrls}
    IN  {<<r1, r2>> : r1 \in rows, r2 \in rows}
            \cup {<<r1, r2, r3>> : r1 \in rows, r2 \in rows, r3 \in rows}

\* feeds with rows whose link cell is empty or missing (NaN)
LinklessFeeds ==
    LET row(u) == [url |-> u, tag |-> 1]
    IN  {<<row(EmptyStr)>>,
         <<row(NaN), row(MaxOld + 1)>>,
         <<row(2), row(EmptyStr), row(NaN)>>}

\* ak.stock_info_global_em(): the feeds the provider answers with
Feeds ==
    {OldThenNew(k, m) : k \in {0, 1, 2, MaxOld}, m \in 0..MaxNew}
        \cup MixedFeeds \cup LinklessFeeds

\* what clean_dataframe leaves in a cell of a text column: astype(str) and
\* strip, then '', 'nan' and 'None' replaced by None (collectors.py:68-70)
clean_text(v) == IF v \in {EmptyStr, NaN, None} THEN None ELSE v

\* str(v).strip(): the text of a value; str(None) is the text 'None'
str_strip(v) == IF v = None THEN TextNone ELSE v

\* url = str(row.get('链接', '')).strip() on the cleaned DataFrame
\* (collectors.py:1073, 1084)
UrlOf(row) == str_strip(clean_text(row.url))

\* a run that keeps the whole feed
HeadRowsAll(feed, n) == feed

\* news_df.head(max_process_count)
HeadRows(feed, n) == IF Len(feed) > n THEN SubSeq(feed, 1, n) ELSE feed

\* the rows the loop of collect_news iterates over
NewsRows == HeadRows(n_feed, n_max)

\* number of lookups that raised so far in the run
LookupFailures == Cardinality({j \in 1..Len(n_log) : n_log[j] = "raised"})

\* a lookup that never finds a stored URL
LookupMissing(url, lookupOk) == FALSE

\* db.supabase.table('stock_news').select('id').eq('url', url).limit(1):
\* TRUE when the lookup answers with a row; a lookup that raises is passed
\* over (collectors.py:1094-1103)
Lookup(url, lookupOk) ==
    IF lookupOk THEN \E r \in stock_news : r.url = url ELSE FALSE

\* the in-run check that misses URLs admitted earlier in the run
SeenInRunNever(url, urls) == FALSE

\* "if url in processed_urls" (collectors.py:1089)
SeenInRun(url, urls) == url \in urls

\* collect_news(max_process_count) up to the loop (collectors.py:1055-1079)
StartNews(feed, max, fetchOk) ==
    /\ n_pc = "idle"
    /\ n_feed' = feed /\ n_max' = max
    /\ n_idx' = 0 /\ processed_urls' = {} /\ processed_news' = <<>>
    /\ new_news_count' = 0 /\ duplicate_count' = 0 /\ n_log' = <<>>
    /\ n_result' = FALSE /\ n_cleanup' = "none"
    /\ n_pc' = IF fetchOk /\ Len(feed) > 0 THEN "scan" ELSE "done"
    /\ UNCHANGED <<stock_news, nFrame>>

\* one iteration of the loop over the rows (collectors.py:1081-1141)
ScanRow(lookupOk) ==
    /\ n_pc = "scan"
    /\ n_idx < Len(NewsRows)
    /\ LET row == NewsRows[n_idx + 1]
           url == UrlOf(row)
           last == (n_idx + 1 = Len(NewsRows))
       IN  IF url = EmptyStr
           THEN /\ lookupOk
                /\ n_log' = Append(n_log, "nourl")
                /\ n_pc' = IF last THEN "upsert" ELSE "scan"
                /\ UNCHANGED <<processed_urls, processed_news, new_news_count,
                               duplicate_count>>
           ELSE IF SeenInRun(url, processed_urls)
           THEN /\ lookupOk
                /\ duplicate_count' = duplicate_count + 1
                /\ n_log' = Append(n_log, "dup")
                /\ n_pc' = IF last THEN "upsert" ELSE "scan"
                /\ UNCHANGED <<processed_urls, processed_news, new_news_count>>
           ELSE IF Lookup(url, lookupOk)
           THEN /\ duplicate_count' = duplicate_count + 1
                /\ n_log' = Append(n_log, "found")
                /\ n_pc' = IF last THEN "upsert" ELSE "scan"
                /\ UNCHANGED <<processed_urls, processed_news, new_news_count>>
           ELSE /\ (~lookupOk => LookupFailures < MaxLookupFailures)
                /\ processed_urls' = processed_urls \cup {url}
                /\ processed_news' = Append(processed_news,
                        [url |-> url, tag |-> row.tag, create_time |-> Now])
                /\ new_news_count' = new_news_count + 1
                /\ n_log' = Append(n_log, IF lookupOk THEN "absent" ELSE "raised")
                /\ n_pc' = IF duplicate_count > DupLimit /\ new_news_count' = 0
                           THEN "upsert"
                           ELSE IF last THEN "upsert" ELSE "scan"
                /\ UNCHANGED duplicate_count
    /\ n_idx' = n_idx + 1
    /\ UNCHANGED <<stock_news, n_feed, n_max, n_result, n_cleanup, nFrame>>

\* a cleanup that deletes nothing
CleanupNothing(table, cleanupOk) == table

\* StockNewsCollector._cleanup_old_news: delete the rows older than a week;
\* an error is caught and logged
CleanupOldNews(table, cleanupOk) ==
    IF cleanupOk THEN {r \in table : ~(r.create_time < Now)} ELSE table

\* after the loop: the upsert of processed_news and the cleanup
\* (collectors.py:1143-1165)
FinishNews(failAt, cleanupOk) ==
    /\ n_pc = "upsert"
    /\ failAt \in 0..NumCalls(Len(processed_news))
    /\ LET res == upsert_dataframe(processed_news, stock_news,
                                   ConflictColumns("stock_news"), failAt)
       IN  IF processed_news = <<>>
           THEN /\ cleanupOk
                /\ n_result' = FALSE /\ n_cleanup' = "none"
                /\ UNCHANGED stock_news
           ELSE /\ n_result' = res.ok
                /\ (~res.ok => cleanupOk)
                /\ n_cleanup' = IF ~res.ok THEN "none"
                                ELSE IF cleanupOk THEN "deleted" ELSE "failed"
                /\ stock_news' = IF res.ok
                                 THEN CleanupOldNews(res.table, cleanupOk)
                                 ELSE res.table
    /\ n_pc' = "done"
    /\ UNCHANGED <<n_feed, n_max, n_idx, processed_urls, processed_news,
                   new_news_count, duplicate_count, n_log, nFrame>>

InitNews ==
    /\ daily_quote = {} /\ gIdle /\ hIdle /\ iIdle
    /\ stock_news = StoredNews
    /\ n_pc = "idle" /\ n_feed = <<>> /\ n_max = 0 /\ n_idx = 0
    /\ processed_urls = {} /\ processed_news = <<>> /\ new_news_count = 0
    /\ duplicate_count = 0 /\ n_result = FALSE /\ n_log = <<>>
    /\ n_cleanup = "none"
    /\ rIdle
    /\ cIdle
    /\ fIdle
    /\ tIdle
    /\ pIdle
    /\ dIdle
    /\ mIdle
    /\ xIdle
    /\ yIdle
    /\ bIdle
    /\ kIdle
    /\ zIdle
    /\ eIdle
    /\ oIdle
    /\ qIdle
    /\ jIdle
    /\ uIdle

NextNews ==
    \/ \E feed \in Feeds,
          max \in {SmallProcessCount, DefaultMaxProcess, BigProcessCount},
          fetchOk \in BOOLEAN : StartNews(feed, max, fetchOk)
    \/ \E lookupOk \in BOOLEAN : ScanRow(lookupOk)
    \/ \E failAt \in 0..1, cleanupOk \in BOOLEAN : FinishNews(failAt, cleanupOk)

SpecNews == InitNews /\ [][NextNews]_vars

\* ------------------------------------------- collect_all_indexes_history
\* datetime.now().strftime('%Y%m%d')
TodayStr == strftime(Today)

\* the hours of the day the clock runs through
ClockHours == 17..21

\* the weekdays tried: a Friday and a Saturday
Weekdays == {4, 5}

\* _should_retry_index_collection with the first hour of the window left out
ShouldRetryLate(weekday, hour) ==
    IF weekday >= Saturday THEN FALSE
    ELSE IF RetryFromHour < hour /\ hour <= RetryToHour THEN TRUE
    ELSE FALSE

\* IndexDataCollector._should_retry_index_collection
ShouldRetry(weekday, hour) ==
    IF weekday >= Saturday THEN FALSE
    ELSE IF RetryFromHour <= hour /\ hour <= RetryToHour THEN TRUE
    ELSE FALSE

\* ak.stock_zh_index_daily(symbol): the whole daily series of an index,
\* oldest first, with today's row once it is published
IndexSeries ==
    SelectSeq([n \in 1..NumDays |-> DayAt(n)],
              LAMBDA d : d # Today \/ i_published)

\* df[(df['date'] >= start_dt) & (df['date'] <= end_dt)] and the columns
\* added to it (collectors.py:506-520)
IndexRows(index_code, start_date, end_date) ==
    LET days == SelectSeq(IndexSeries,
                    LAMBDA d : /\ DateLeq(strptime(start_date), d)
                               /\ DateLeq(d, strptime(end_date)))
    IN  [j \in 1..Len(days) |->
            [index_code |-> index_code, trade_date |-> days[j], close |-> 1]]

\* time passes
Tick ==
    /\ i_pc # "off"
    /\ i_hour + 1 \in ClockHours
    /\ i_hour' = i_hour + 1
    /\ UNCHANGED <<index_data, i_weekday, i_published, i_pc, i_ctx, i_req, i_i,
                   i_success_count, has_data_count, i_timer, i_sched, i_main,
                   iFrame>>

\* the provider publishes today's rows
Publish ==
    /\ i_pc # "off"
    /\ ~i_published
    /\ i_published' = TRUE
    /\ UNCHANGED <<index_data, i_hour, i_weekday, i_pc, i_ctx, i_req, i_i,
                   i_success_count, has_data_count, i_timer, i_sched, i_main,
                   iFrame>>

\* the original call collect_all_indexes_history(start_date, end_date,
\* retry_delay_hours=1) (main.py:98, collectors.py:443-456)
StartIndex(start_date, end_date) ==
    /\ i_pc = "idle"
    /\ start_date <= end_date
    /\ i_pc' = "loop" /\ i_ctx' = "main"
    /\ i_req' = [start_date |-> start_date, end_date |-> end_date,
                 retry_delay_hours |-> retry_delay_hours]
    /\ i_i' = 1 /\ i_success_count' = 0 /\ has_data_count' = 0
    /\ UNCHANGED <<index_data, i_hour, i_weekday, i_published, i_timer,
                   i_sched, i_main, iFrame>>

\* collect_index_history_with_data_check for index i of the list, and the
\* counting of its result (collectors.py:458-466, 486-544); outcome is what
\* safe_request gives: "raise", "empty" (an empty DataFrame), "series"
IndexStep(outcome, failAt) ==
    /\ i_pc = "loop" /\ i_i <= NumIndexes
    /\ LET df == IF outcome = "series"
                 THEN IndexRows(i_i, i_req.start_date, i_req.end_date)
                 ELSE <<>>
           res == upsert_dataframe(df, index_data,
                                   ConflictColumns("index_data"), failAt)
           success == IF outcome = "raise" THEN FALSE
                      ELSE IF Len(df) = 0 THEN TRUE ELSE res.ok
           has_data == Len(df) > 0
       IN  /\ failAt \in 0..NumCalls(Len(df))
           /\ index_data' = res.table
           /\ i_success_count' = IF success THEN i_success_count + 1
                                 ELSE i_success_count
           /\ has_data_count' = IF has_data THEN has_data_count + 1
                                ELSE has_data_count
           /\ i_main' = IF i_ctx = "main"
                        THEN [i_main EXCEPT !.rows = @ + Len(df)]
                        ELSE i_main
    /\ i_i' = i_i + 1
    /\ i_pc' = IF i_i = NumIndexes THEN "decide" ELSE "loop"
    /\ UNCHANGED <<i_hour, i_weekday, i_published, i_ctx, i_req, i_timer,
                   i_sched, iFrame>>

\* the end of collect_all_indexes_history: the no-data check, the start of
\* the background thread by _retry_index_collection_later, the return value
\* (collectors.py:468-484, 561-598)
Decide ==
    /\ i_pc = "decide"
    /\ LET retry == /\ has_data_count = 0
                    /\ i_success_count = NumIndexes
                    /\ i_req.start_date = TodayStr
                    /\ i_hour < CutoffHour
                    /\ ShouldRetry(i_weekday, i_hour)
           result == IF retry THEN TRUE ELSE i_success_count > 0
       IN  /\ IF retry
              THEN /\ i_sched < MaxTasks
                   /\ i_timer' = [due |-> i_hour + i_req.retry_delay_hours]
                   /\ i_sched' = i_sched + 1
              ELSE UNCHANGED <<i_timer, i_sched>>
           /\ i_main' = IF i_ctx = "main"
                        THEN [i_main EXCEPT !.done = TRUE, !.hour = i_hour,
                                            !.s = i_success_count,
                                            !.h = has_data_count,
                                            !.result = result]
                        ELSE i_main
    /\ i_pc' = "done"
    /\ UNCHANGED <<index_data, i_hour, i_weekday, i_published, i_ctx, i_req,
                   i_i, i_success_count, has_data_count, iFrame>>

\* delayed_retry after its sleep: collect_all_indexes_history(start_date,
\* end_date, retry_delay_hours=0) in the background thread
\* (collectors.py:567-572)
RetryWake ==
    /\ i_pc = "done"
    /\ i_timer # <<>>
    /\ i_hour >= i_timer.due
    /\ i_timer' = <<>>
    /\ i_pc' = "loop" /\ i_ctx' = "retry"
    /\ i_req' = [i_req EXCEPT !.retry_delay_hours = retry_delay_again]
    /\ i_i' = 1 /\ i_success_count' = 0 /\ has_data_count' = 0
    /\ UNCHANGED <<index_data, i_hour, i_weekday, i_published, i_sched,
                   i_main, iFrame>>

InitIndex ==
    /\ daily_quote = {} /\ gIdle /\ hIdle /\ nIdle
    /\ index_data = {}
    /\ i_hour \in ClockHours /\ i_weekday \in Weekdays
    /\ i_published = FALSE
    /\ i_pc = "idle" /\ i_ctx = "main" /\ i_req = <<>> /\ i_i = 0
    /\ i_success_count = 0 /\ has_data_count = 0
    /\ i_timer = <<>> /\ i_sched = 0 /\ i_main = NoMain
    /\ rIdle
    /\ cIdle
    /\ fIdle
    /\ tIdle
    /\ pIdle
    /\ dIdle
    /\ mIdle
    /\ xIdle
    /\ yIdle
    /\ bIdle
    /\ kIdle
    /\ zIdle
    /\ eIdle
    /\ oIdle
    /\ qIdle
    /\ jIdle
    /\ uIdle

NextIndex ==
    \/ Tick
    \/ Publish
    \/ \E S \in DateStrs, E \in DateStrs : StartIndex(S, E)
    \/ \E outcome \in {"raise", "empty", "series"}, failAt \in 0..1 :
          IndexStep(outcome, failAt)
    \/ Decide
    \/ RetryWake

SpecIndex == InitIndex /\ [][NextIndex]_vars

\* ------------------------------------------------ BaseCollector.safe_request
\* what one invocation of the wrapped function does: it returns a DataFrame
\* (with rows, or empty) or raises
Values == {"rows", "empty"}
Exceptions == {"ConnectionError", "KeyError"}
Outcomes == Values \cup Exceptions

\* the behaviours of the wrapped function tried: its outcome at each of its
\* successive invocations
Scripts == [1..MaxOutcomes -> Outcomes]

\* an event of a request: the wrapped function is invoked
Invoked == 0

\* "except exceptions" of the decorator catching ConnectionError only
RetryableConnectionOnly(outcome) == outcome = "ConnectionError"

\* "except exceptions" of the decorator, exceptions = Exception: every
\* exception the wrapped function raises is caught
Retryable(outcome) == outcome \in Exceptions

\* "_delay *= backoff" of the decorator
NextDelay(d) == d * retry_backoff

\* a caller calls self.safe_request(func, ...): "_tries, _delay = tries, delay"
StartRequest(script) ==
    /\ r_pc \in {"idle", "returned", "raised"}
    /\ r_count < MaxRequests
    /\ r_count' = r_count + 1
    /\ r_script' = script
    /\ r_pc' = "try"
    /\ r_tries' = retry_tries /\ r_delay' = retry_delay
    /\ r_calls' = 0 /\ r_events' = <<>> /\ r_out' = None
    /\ UNCHANGED rFrame

\* one pass of the decorator's loop: "return f()", where f is safe_request's
\* body (which logs and re-raises), and the except branch: "_tries -= 1",
\* "if not _tries: raise", "time.sleep(_delay)", "_delay *= backoff"
Attempt ==
    /\ r_pc = "try" /\ r_tries > 0
    /\ LET outcome == r_script[r_calls + 1]
       IN  /\ r_calls' = r_calls + 1
           /\ IF outcome \in Values
              THEN /\ r_pc' = "returned" /\ r_out' = outcome
                   /\ r_events' = Append(r_events, Invoked)
                   /\ UNCHANGED <<r_tries, r_delay>>
              ELSE IF ~Retryable(outcome)
              THEN /\ r_pc' = "raised" /\ r_out' = outcome
                   /\ r_events' = Append(r_events, Invoked)
                   /\ UNCHANGED <<r_tries, r_delay>>
              ELSE /\ r_tries' = r_tries - 1
                   /\ IF r_tries - 1 = 0
                      THEN /\ r_pc' = "raised" /\ r_out' = outcome
                           /\ r_events' = Append(r_events, Invoked)
                           /\ UNCHANGED r_delay
                      ELSE /\ r_events' = r_events \o <<Invoked, r_delay>>
                           /\ r_delay' = NextDelay(r_delay)
                           /\ UNCHANGED <<r_pc, r_out>>
    /\ UNCHANGED <<r_script, r_count, rFrame>>

InitRequest ==
    /\ daily_quote = {} /\ stock_news = {} /\ index_data = {}
    /\ r_pc = "idle" /\ r_script = <<>> /\ r_calls = 0 /\ r_tries = 0
    /\ r_delay = 0 /\ r_events = <<>> /\ r_out = None /\ r_count = 0
    /\ gIdle /\ hIdle /\ nIdle /\ iIdle
    /\ cIdle
    /\ fIdle
    /\ tIdle
    /\ pIdle
    /\ dIdle
    /\ mIdle
    /\ xIdle
    /\ yIdle
    /\ bIdle
    /\ kIdle
    /\ zIdle
    /\ eIdle
    /\ oIdle
    /\ qIdle
    /\ jIdle
    /\ uIdle

NextRequest ==
    \/ \E script \in Scripts : StartRequest(script)
    \/ Attempt

SpecRequest == InitRequest /\ [][NextRequest]_vars

\* ------------------------------------- one call of a single-fetch collector
\* the collectors that fetch one DataFrame, normalise it and upsert it
Collectors == {"history", "latest_quotes", "hot_rank", "hot_up", "hsgt"}

\* cells of a provider row that are not clean: float('inf'), a string that is
\* not a number, a date string that names no day
Inf == -3
Malformed == -4
BadDate == <<2024, 13, 45>>

\* the provider rows tried: an entity (stock code or rank), a date cell and a
\* numeric cell
ProviderCells ==
    [id : 1..2, date : {DayAt(1), DayAt(2), BadDate},
     num : {1, Inf, Malformed, EmptyStr}]

\* the responses tried: the DataFrames of at most MaxRows such rows
Responses == UNION {[1..n -> ProviderCells] : n \in 0..MaxRows}

\* what each collector returns on "if df.empty" (collectors.py:214-216,
\* 326-328, 697-699, 764-766, 832-834)
OnEmpty(name) == IF name = "history" THEN TRUE ELSE FALSE

\* the collectors that convert the provider's date column with
\* pd.to_datetime (collectors.py:239-240, 859-860); the others write today
ParsesDate(name) == name \in {"history", "hsgt"}

\* the collectors that convert their numeric columns with
\* pd.to_numeric(errors='coerce')
Coerces(name) == name \in {"latest_quotes", "hot_rank", "hot_up", "hsgt"}

\* the collector of the stock whose history is requested
RequestedStock == 1

IsDate(d) == d[2] \in 1..12 /\ d[3] \in 1..DaysInMonth(d[1], d[2])

\* pd.to_numeric(v, errors='coerce')
to_numeric(v) == IF v \in {Malformed, EmptyStr, None, NaN} THEN NaN ELSE v

\* what clean_dataframe leaves in a cell: +-inf replaced by None, the
\* strings '', 'nan', 'None' of an object column replaced by None
clean_cell(v) == IF v \in {Inf, EmptyStr} THEN None ELSE v

\* the rename, type conversion and clean_dataframe steps of a collector on a
\* non-empty DataFrame; raised: pd.to_datetime raised on a date cell
Normalize(name, response) ==
    IF ParsesDate(name) /\ \E j \in 1..Len(response) : ~IsDate(response[j].date)
    THEN [raised |-> TRUE, df |-> <<>>]
    ELSE [raised |-> FALSE,
          df |-> [j \in 1..Len(response) |->
                    [stock_code |-> IF name = "history" THEN RequestedStock
                                    ELSE response[j].id,
                     trade_date |-> IF ParsesDate(name) THEN response[j].date
                                    ELSE Today,
                     close |-> IF name = "latest_quotes"
                               THEN to_numeric(clean_cell(response[j].num))
                               ELSE IF Coerces(name)
                               THEN clean_cell(to_numeric(response[j].num))
                               ELSE clean_cell(response[j].num)]]]

\* one call of collect_stock_history, collect_latest_quotes_batch,
\* collect_hot_rank, collect_hot_up or collect_hsgt_fund_flow: fetchOk is
\* whether safe_request returns, failAt the storage call that raises
Collect(name, response, fetchOk, failAt) ==
    /\ c_pc = "idle"
    /\ c_pc' = "done" /\ c_name' = name /\ c_response' = response
    /\ c_fetched' = fetchOk
    /\ IF ~fetchOk
       THEN /\ c_result' = FALSE /\ c_raised' = FALSE /\ c_sent' = <<>>
            /\ failAt = 0 /\ UNCHANGED c_table
       ELSE IF Len(response) = 0
       THEN /\ c_result' = OnEmpty(name) /\ c_raised' = FALSE /\ c_sent' = <<>>
            /\ failAt = 0 /\ UNCHANGED c_table
       ELSE LET norm == Normalize(name, response)
                res == upsert_dataframe(norm.df, c_table,
                                        ConflictColumns("daily_quote"), failAt)
            IN  IF norm.raised
                THEN /\ c_result' = FALSE /\ c_raised' = TRUE /\ c_sent' = <<>>
                     /\ failAt = 0 /\ UNCHANGED c_table
                ELSE /\ c_result' = res.ok /\ c_raised' = FALSE
                     /\ c_sent' = res.calls[1].rows
                     /\ c_table' = res.table
    /\ UNCHANGED cFrame

InitCollect ==
    /\ daily_quote = {} /\ stock_news = {} /\ index_data = {}
    /\ c_pc = "idle" /\ c_name = "" /\ c_response = <<>> /\ c_fetched = FALSE
    /\ c_raised = FALSE /\ c_sent = <<>> /\ c_result = FALSE /\ c_table = {}
    /\ gIdle /\ hIdle /\ nIdle /\ iIdle /\ rIdle
    /\ fIdle
    /\ tIdle
    /\ pIdle
    /\ dIdle
    /\ mIdle
    /\ xIdle
    /\ yIdle
    /\ bIdle
    /\ kIdle
    /\ zIdle
    /\ eIdle
    /\ oIdle
    /\ qIdle
    /\ jIdle
    /\ uIdle

NextCollect ==
    /\ c_pc = "idle"
    /\ \E name \in Collectors, response \in Responses, fetchOk \in BOOLEAN,
          failAt \in 0..1 : Collect(name, response, fetchOk, failAt)

SpecCollect == InitCollect /\ [][NextCollect]_vars

\* ------------------------------------------------- collect_fund_flow_rank
\* indicators = ["今日", "3日", "5日", "10日"], by position
NumIndicators == 4

\* a provider row of stock_individual_fund_flow_rank: code and name cell
FundRow(code, name) == [stock_code |-> code, stock_name |-> name]

\* the provider responses tried: none, one stock, a stock that may be absent
\* from stock_basic, the same stock twice, a row without a name
FundResponses ==
    {<<>>,
     <<FundRow(1, 1)>>,
     <<FundRow(3, 1)>>,
     <<FundRow(1, 1), FundRow(2, 1)>>,
     <<FundRow(2, 1), FundRow(2, 1), FundRow(3, 1)>>,
     <<FundRow(1, NaN), FundRow(2, 1)>>}

\* the contents of stock_basic tried
BasicSets == {{}, {1}, {1, 2}}

\* db.get_stock_list(): the codes of stock_basic, [] when the read fails
get_stock_list(basic, listOk) == IF listOk THEN basic ELSE {}

\* df.dropna(subset=['stock_code', 'stock_name'])
DropNa(df) ==
    SelectSeq(df, LAMBDA r : r.stock_code # NaN /\ r.stock_name # NaN
                             /\ r.stock_code # None /\ r.stock_name # None)

\* no filter on the stock codes
IsInAll(df, valid_stocks) == df

\* df[df['stock_code'].isin(valid_stocks)]
IsIn(df, valid_stocks) ==
    SelectSeq(df, LAMBDA r : r.stock_code \in valid_stocks)

\* df.drop_duplicates(subset=unique_fields, keep='first')
DropDuplicates(df, cols) ==
    LET keep == {j \in 1..Len(df) :
                    \A j0 \in 1..(j - 1) : KeyOf(df[j0], cols) # KeyOf(df[j], cols)}
        F[j \in 0..Len(df)] ==
            IF j = 0 THEN <<>>
            ELSE IF j \in keep THEN Append(F[j - 1], df[j]) ELSE F[j - 1]
    IN  F[Len(df)]

\* the flag keeping only the last indicator's outcome
LastSuccess(overall, ok) == ok

\* "overall_success = False" on a failed indicator, otherwise unchanged
AndSuccess(overall, ok) == overall /\ ok

\* the call collect_fund_flow_rank(), up to the loop (collectors.py:901-910)
StartFund ==
    /\ f_pc = "idle"
    /\ f_pc' = "loop" /\ f_k' = 1 /\ overall_success' = TRUE
    /\ f_log' = <<>>
    /\ UNCHANGED <<stock_fund_flow_rank, f_basic, f_result, fFrame>>

\* the body of the loop for indicator k (collectors.py:912-1027): fetchOk is
\* whether safe_request returns, listOk whether get_stock_list can read,
\* failAt the storage call that raises
FundStep(response, fetchOk, listOk, failAt) ==
    /\ f_pc = "loop" /\ f_k <= NumIndicators
    /\ IF ~fetchOk
       THEN /\ response = <<>> /\ listOk /\ failAt = 0
            /\ overall_success' = AndSuccess(overall_success, FALSE)
            /\ f_log' = Append(f_log, [indicator |-> f_k, outcome |-> "raised",
                                       fetched |-> <<>>, valid |-> {},
                                       sent |-> <<>>])
            /\ UNCHANGED stock_fund_flow_rank
       ELSE IF Len(response) = 0
       THEN /\ listOk /\ failAt = 0
            /\ overall_success' = AndSuccess(overall_success, FALSE)
            /\ f_log' = Append(f_log, [indicator |-> f_k, outcome |-> "empty",
                                       fetched |-> <<>>, valid |-> {},
                                       sent |-> <<>>])
            /\ UNCHANGED stock_fund_flow_rank
       ELSE LET named == [j \in 1..Len(response) |->
                            [stock_code |-> response[j].stock_code,
                             stock_name |-> response[j].stock_name,
                             indicator |-> f_k, trade_date |-> Today]]
                valid_stocks == get_stock_list(f_basic, listOk)
                cols == ConflictColumns("stock_fund_flow_rank")
                df == DropDuplicates(IsIn(DropNa(named), valid_stocks), cols)
                res == upsert_dataframe(df, stock_fund_flow_rank, cols, failAt)
            IN  /\ failAt \in 0..NumCalls(Len(df))
                /\ stock_fund_flow_rank' = res.table
                /\ overall_success' = AndSuccess(overall_success, res.ok)
                /\ f_log' = Append(f_log,
                       [indicator |-> f_k,
                        outcome |-> IF res.ok THEN "upserted" ELSE "failed",
                        fetched |-> response, valid |-> valid_stocks,
                        sent |-> df])
    /\ f_k' = f_k + 1
    /\ UNCHANGED <<f_pc, f_basic, f_result, fFrame>>

\* "return overall_success" (collectors.py:1030-1035)
FinishFund ==
    /\ f_pc = "loop" /\ f_k > NumIndicators
    /\ f_pc' = "done" /\ f_result' = overall_success
    /\ UNCHANGED <<stock_fund_flow_rank, f_basic, f_k, overall_success, f_log,
                   fFrame>>

InitFund ==
    /\ daily_quote = {} /\ stock_news = {} /\ index_data = {}
    /\ stock_fund_flow_rank = {} /\ f_basic \in BasicSets
    /\ f_pc = "idle" /\ f_k = 0 /\ overall_success = TRUE /\ f_log = <<>>
    /\ f_result = FALSE
    /\ gIdle /\ hIdle /\ nIdle /\ iIdle /\ rIdle /\ cIdle
    /\ tIdle
    /\ pIdle
    /\ dIdle
    /\ mIdle
    /\ xIdle
    /\ yIdle
    /\ bIdle
    /\ kIdle
    /\ zIdle
    /\ eIdle
    /\ oIdle
    /\ qIdle
    /\ jIdle
    /\ uIdle

NextFund ==
    \/ StartFund
    \/ /\ f_pc = "loop"
       /\ \E response \in FundResponses, fetchOk \in BOOLEAN,
             listOk \in BOOLEAN, failAt \in 0..1 :
             FundStep(response, fetchOk, listOk, failAt)
    \/ FinishFund

SpecFund == InitFund /\ [][NextFund]_vars

\* ------------------------------------------- the jobs and their notices
\* the collection steps whose results a job keeps
Tasks == {"stock", "index", "hot_rank", "hot_up", "news", "index_retry"}

\* what a call of a collector does, seen from the job: it returns True or
\* False, or raises
CallOutcomes == {"true", "false", "raise"}

\* what one call of collect_latest_quotes_batch does: the snapshot is fetched
\* and upserted, its upsert fails, it is empty, or the fetch raises
BatchOutcomes == {"upserted", "upsert_failed", "empty", "raised"}

\* an event of collect_latest_quotes: a call of collect_latest_quotes_batch
BatchCall == 0

\* a notifier that lets a webhook error out
send_raising(sendOk) == IF sendOk THEN "sent" ELSE "raised"

\* send_completion_notice and send_daily_summary: True when the message was
\* accepted; False when the notifier is not configured, the webhook answers
\* with an error or the request raises (feishu_notify.py:130-150, 231-262)
send_notice(sendOk) == IF sendOk THEN "sent" ELSE "failed"

\* a pause after every failed attempt, the last one included
SleepsAlways(attempt) == TRUE

\* "if attempt < max_retries - 1": a failed attempt that is not the last is
\* followed by time.sleep(retry_delay)
SleepsAfter(attempt) == attempt < max_retries - 1

\* the status made of the success flags of any one step
AnySuccess(flags) ==
    flags["stock"] \/ flags["index"] \/ flags["hot_rank"] \/ flags["hot_up"]

\* "stock_success and index_success and hot_rank_success and hot_up_success"
OverallSuccess(flags) ==
    flags["stock"] /\ flags["index"] /\ flags["hot_rank"] /\ flags["hot_up"]

\* collect_today_data up to its first collector (main.py:68-83)
StartToday ==
    /\ t_pc = "idle"
    /\ t_job' = "today" /\ t_pc' = "quotes"
    /\ t_attempt' = 0 /\ t_qevents' = <<>> /\ t_qlog' = <<>>
    /\ UNCHANGED <<daily_quote, t_success, t_events, t_log, t_overall,
                   t_notified, t_propagated, tFrame>>

\* one pass of the loop of collect_latest_quotes (collectors.py:411-423) and,
\* when it ends, the return to collect_today_data (main.py:84-91)
QuoteAttempt(outcome) ==
    /\ t_pc = "quotes" /\ t_attempt < max_retries
    /\ LET batch_success == outcome = "upserted"
           last == t_attempt = max_retries - 1
           slept == ~batch_success /\ SleepsAfter(t_attempt)
       IN  /\ t_qlog' = Append(t_qlog, outcome)
           /\ t_qevents' = IF slept
                           THEN t_qevents \o <<BatchCall, quotes_retry_delay>>
                           ELSE Append(t_qevents, BatchCall)
           /\ daily_quote' =
                 IF batch_success
                 THEN StorageUpsert(daily_quote, Snapshot(NumStocks, t_attempt + 1),
                                    ConflictColumns("daily_quote"))
                 ELSE daily_quote
           /\ IF batch_success \/ last
              THEN /\ t_success' = [t_success EXCEPT !["stock"] = batch_success]
                   /\ t_log' = Append(t_log, IF batch_success THEN "true" ELSE "false")
                   /\ t_events' = Append(t_events, "stock")
                   /\ t_pc' = "index"
              ELSE UNCHANGED <<t_success, t_log, t_events, t_pc>>
    /\ t_attempt' = t_attempt + 1
    /\ UNCHANGED <<t_job, t_overall, t_notified, t_propagated, tFrame>>

\* one of the three later steps of collect_today_data: the call of the
\* collector inside its try (main.py:93-125)
CollectorCall(task, next, outcome) ==
    /\ t_job = "today" /\ t_pc = task
    /\ t_success' = [t_success EXCEPT ![task] = (outcome = "true")]
    /\ t_log' = Append(t_log, outcome)
    /\ t_events' = Append(t_events, task)
    /\ t_pc' = next
    /\ UNCHANGED <<daily_quote, t_job, t_attempt, t_qevents, t_qlog, t_overall,
                   t_notified, t_propagated, tFrame>>

\* the end of collect_today_data: overall_success, the summary and its
\* fallback (main.py:127-174); buildOk is whether the summary data could be
\* built, sendOk and fallbackOk what the two notifier calls do
TodayNotify(buildOk, sendOk, fallbackOk) ==
    /\ t_job = "today" /\ t_pc = "notify"
    /\ t_overall' = OverallSuccess(t_success)
    /\ LET summary == IF buildOk THEN send_notice(sendOk) ELSE "raised"
           notice == send_notice(fallbackOk)
       IN  IF summary # "raised"
           THEN /\ fallbackOk
                /\ t_notified' = <<"summary", summary>>
           ELSE t_notified' = <<"notice", notice>>
    /\ t_events' = Append(t_events, "notify")
    /\ t_propagated' = FALSE
    /\ t_pc' = "done"
    /\ UNCHANGED <<daily_quote, t_job, t_attempt, t_qevents, t_qlog, t_success,
                   t_log, tFrame>>

\* job_news_update (scheduler.py:56-105): outcome is what collect_news does
NewsJob(outcome, sendOk, againOk) ==
    /\ t_pc = "idle"
    /\ t_job' = "news" /\ t_pc' = "done"
    /\ t_success' = [t_success EXCEPT !["news"] = (outcome = "true")]
    /\ t_log' = Append(t_log, outcome)
    /\ t_events' = <<"news", "notify">>
    /\ LET first == IF outcome = "raise" THEN "raised" ELSE send_notice(sendOk)
           again == send_notice(againOk)
       IN  IF first # "raised"
           THEN /\ againOk
                /\ t_notified' = <<"notice", first>>
                /\ t_propagated' = FALSE
           ELSE /\ t_notified' = <<"notice", again>>
                /\ t_propagated' = (again = "raised")
    /\ UNCHANGED <<daily_quote, t_attempt, t_qevents, t_qlog, t_overall, tFrame>>

\* delayed_retry after its sleep (collectors.py:571-591): outcome is what
\* the retried collect_all_indexes_history returns
RetryJob(outcome, sendOk) ==
    /\ t_pc = "idle"
    /\ outcome \in {"true", "false"}
    /\ t_job' = "index_retry" /\ t_pc' = "done"
    /\ t_success' = [t_success EXCEPT !["index_retry"] = (outcome = "true")]
    /\ t_log' = Append(t_log, outcome)
    /\ IF outcome = "true"
       THEN /\ t_events' = <<"index_retry", "notify">>
            /\ t_notified' = <<"notice", send_notice(sendOk)>>
       ELSE /\ sendOk
            /\ t_events' = <<"index_retry">>
            /\ t_notified' = <<>>
    /\ t_propagated' = FALSE
    /\ UNCHANGED <<daily_quote, t_attempt, t_qevents, t_qlog, t_overall, tFrame>>

InitToday ==
    /\ daily_quote = {} /\ stock_news = {} /\ index_data = {}
    /\ t_job = "" /\ t_pc = "idle" /\ t_attempt = 0 /\ t_qevents = <<>>
    /\ t_qlog = <<>> /\ t_success = [k \in Tasks |-> FALSE] /\ t_events = <<>>
    /\ t_log = <<>> /\ t_overall = FALSE /\ t_notified = <<>>
    /\ t_propagated = FALSE
    /\ gIdle /\ hIdle /\ nIdle /\ iIdle /\ rIdle /\ cIdle /\ fIdle
    /\ pIdle
    /\ dIdle
    /\ mIdle
    /\ xIdle
    /\ yIdle
    /\ bIdle
    /\ kIdle
    /\ zIdle
    /\ eIdle
    /\ oIdle
    /\ qIdle
    /\ jIdle
    /\ uIdle

NextToday ==
    \/ StartToday
    \/ \E outcome \in BatchOutcomes : QuoteAttempt(outcome)
    \/ \E outcome \in CallOutcomes : CollectorCall("index", "hot_rank", outcome)
    \/ \E outcome \in CallOutcomes : CollectorCall("hot_rank", "hot_up", outcome)
    \/ \E outcome \in CallOutcomes : CollectorCall("hot_up", "notify", outcome)
    \/ \E buildOk \in BOOLEAN, sendOk \in BOOLEAN, fallbackOk \in BOOLEAN :
          TodayNotify(buildOk, sendOk, fallbackOk)
    \/ \E outcome \in CallOutcomes, sendOk \in BOOLEAN, againOk \in BOOLEAN :
          NewsJob(outcome, sendOk, againOk)
    \/ \E outcome \in CallOutcomes, sendOk \in BOOLEAN : RetryJob(outcome, sendOk)

SpecToday == InitToday /\ [][NextToday]_vars

\* the steps of a job are taken as long as the job is not over: the process
\* runs it to its end
SpecTodayLive == SpecToday /\ WF_vars(NextToday)

\* ----------------------------- the pacing of collect_all_stocks_history
\* smart_delay(index): after the short delay, the long batch_delay pause is
\* taken when "index > 0 and index % self.batch_size == 0"
BatchPause(index) == index > 0 /\ index % pace_batch_size = 0

\* a call of collect_all_stocks_history on a list of PaceStocks stocks
StartPace(enable_resume) ==
    /\ p_pc = "idle"
    /\ p_pc' = "loop" /\ p_resume' = enable_resume /\ p_i' = 1
    /\ p_run' = 0 /\ p_pauses' = 0 /\ p_skipped' = 0
    /\ UNCHANGED pFrame

\* one pass of the loop for stock i (collectors.py:279-308): the resume check
\* skips the stock with "continue", or collect_stock_history is called and
\* then smart_delay(i)
PaceStep(skip) ==
    /\ p_pc = "loop" /\ p_i <= PaceStocks
    /\ skip => p_resume
    /\ IF skip
       THEN /\ p_skipped' = p_skipped + 1
            /\ UNCHANGED <<p_run, p_pauses>>
       ELSE /\ IF BatchPause(p_i)
               THEN p_run' = 0 /\ p_pauses' = p_pauses + 1
               ELSE p_run' = p_run + 1 /\ UNCHANGED p_pauses
            /\ UNCHANGED p_skipped
    /\ p_i' = p_i + 1
    /\ p_pc' = IF p_i = PaceStocks THEN "done" ELSE "loop"
    /\ UNCHANGED <<p_resume, pFrame>>

InitPace ==
    /\ daily_quote = {} /\ stock_news = {} /\ index_data = {}
    /\ p_pc = "idle" /\ p_resume = FALSE /\ p_i = 0 /\ p_run = 0
    /\ p_pauses = 0 /\ p_skipped = 0
    /\ gIdle /\ hIdle /\ nIdle /\ iIdle /\ rIdle /\ cIdle /\ fIdle /\ tIdle
    /\ dIdle
    /\ mIdle
    /\ xIdle
    /\ yIdle
    /\ bIdle
    /\ kIdle
    /\ zIdle
    /\ eIdle
    /\ oIdle
    /\ qIdle
    /\ jIdle
    /\ uIdle

NextPace ==
    \/ \E enable_resume \in BOOLEAN : StartPace(enable_resume)
    \/ \E skip \in BOOLEAN : PaceStep(skip)

SpecPace == InitPace /\ [][NextPace]_vars

\* ------------------------------------------- the pacing configuration
\* the collector instances of the module (collectors.py:1310-1318) that are
\* told apart here: a history collector, the fund-flow rank collector, the
\* news collector
Instances == {"daily_quote", "fund_flow_rank", "news"}

Config(base, random, batch, size) ==
    [base_delay |-> base, random_delay |-> random, batch_delay |-> batch,
     batch_size |-> size]

\* BaseCollector.__init__ (collectors.py:21-28)
BaseInit ==
    Config(init_base_delay, init_random_delay, init_batch_delay, pace_batch_size)

\* the configuration of an instance when the module is loaded:
\* StockNewsCollector.__init__ calls set_delay_config (collectors.py:1041-1049)
Constructed(inst) ==
    IF inst = "news"
    THEN Config(news_base_delay, news_random_delay, news_batch_delay,
                news_batch_size)
    ELSE BaseInit

\* the arguments set_delay_config is called with: its defaults, a slower
\* pacing, a small batch
DelayConfigs ==
    {Config(set_base_delay, set_random_delay, set_batch_delay, set_batch_size),
     Config(10, 0, 50, 2),
     Config(set_base_delay, set_random_delay, set_batch_delay, 3)}

\* the loop indexes smart_delay is called with
PaceIndexes == {0, 3, 50, 100}

\* attributes kept on the class: one configuration shared by every instance
AssignShared(cfg, inst, new) == [k \in DOMAIN cfg |-> new]

\* "self.base_delay = base_delay" and the three assignments after it: the
\* attributes of the instance the method is called on
AssignSelf(cfg, inst, new) == [cfg EXCEPT ![inst] = new]

\* inst.set_delay_config(base_delay, random_delay, batch_delay, batch_size)
SetDelayConfig(inst, new) ==
    /\ d_op.op # "none"
    /\ d_cfg' = AssignSelf(d_cfg, inst, new)
    /\ d_op' = [op |-> "set", inst |-> inst, cfg |-> new, index |-> 0,
                slept |-> 0, paused |-> 0]
    /\ UNCHANGED dFrame

\* inst.smart_delay(index) (collectors.py:39-48): u is the value drawn by
\* random.uniform(0, self.random_delay)
SmartDelay(inst, index, u) ==
    /\ d_op.op # "none"
    /\ u \in {0, d_cfg[inst].random_delay}
    /\ d_op' = [op |-> "delay", inst |-> inst, cfg |-> <<>>, index |-> index,
                slept |-> d_cfg[inst].base_delay + u,
                paused |-> IF index > 0 /\ index % d_cfg[inst].batch_size = 0
                           THEN d_cfg[inst].batch_delay ELSE 0]
    /\ UNCHANGED <<d_cfg, dFrame>>

InitConfig ==
    /\ daily_quote = {} /\ stock_news = {} /\ index_data = {}
    /\ d_cfg = [inst \in Instances |-> Constructed(inst)]
    /\ d_op = [NoOp EXCEPT !.op = "loaded"]
    /\ gIdle /\ hIdle /\ nIdle /\ iIdle /\ rIdle /\ cIdle /\ fIdle /\ tIdle
    /\ pIdle
    /\ mIdle
    /\ xIdle
    /\ yIdle
    /\ bIdle
    /\ kIdle
    /\ zIdle
    /\ eIdle
    /\ oIdle
    /\ qIdle
    /\ jIdle
    /\ uIdle

NextConfig ==
    \/ \E inst \in Instances, new \in DelayConfigs : SetDelayConfig(inst, new)
    \/ \E inst \in Instances, index \in PaceIndexes, u \in 0..10 :
          SmartDelay(inst, index, u)

SpecConfig == InitConfig /\ [][NextConfig]_vars

\* --------------------------------- the result of a multi-entity run
\* the number of entities of a run: the stock list, the index list
Entities(kind) == IF kind = "stocks" THEN NumStocks ELSE NumIndexes

\* the sizes of the DataFrames an entity's fetch gives: one row, a full
\* storage batch, more than one batch
RowCounts == {1, batch_size, batch_size + 1}

\* upsert_dataframe seen by its counts (database.py:82-121): the return value
\* and total_upserted when storage call failAt raises (0: none raises); the
\* batches before the failing one are already committed
upsert_counts(n, failAt) ==
    IF n = 0 THEN [ok |-> TRUE, written |-> 0]
    ELSE IF failAt = 0 THEN [ok |-> TRUE, written |-> n]
    ELSE [ok |-> FALSE, written |-> (failAt - 1) * batch_size]

\* a run that succeeds only when every entity did
ReturnsAllSuccess(count, total) == count = total

\* "return success_count > 0" (collectors.py:315, 484)
ReturnsSuccess(count, total) == count > 0

\* a call of collect_all_stocks_history or collect_all_indexes_history up to
\* its loop (collectors.py:270-278, 453-456); listOk: get_stock_list returns
\* a non-empty list
StartMulti(kind, listOk) ==
    /\ m_pc = "idle"
    /\ (kind = "indexes" => listOk)
    /\ m_kind' = kind
    /\ m_i' = 1 /\ m_success_count' = 0 /\ m_has_data_count' = 0
    /\ m_written' = 0 /\ m_log' = <<>> /\ m_result' = FALSE
    /\ m_pc' = IF listOk THEN "loop" ELSE "done"
    /\ UNCHANGED mFrame

\* one pass of the loop (collectors.py:279-305, 458-466): the resume check
\* skips the stock, or the entity's collector is called: its fetch raises,
\* gives no row, or gives n rows that are upserted
MultiStep(outcome, n, failAt) ==
    /\ m_pc = "loop" /\ m_i <= Entities(m_kind)
    /\ outcome \in {"skip", "raise", "empty", "rows"}
    /\ (outcome = "skip" => m_kind = "stocks")
    /\ (outcome # "rows" => n = 0)
    /\ (outcome = "rows" => n > 0)
    /\ failAt \in 0..NumCalls(n)
    /\ LET res == upsert_counts(n, failAt)
           success == IF outcome \in {"skip", "raise"} THEN FALSE
                      ELSE IF outcome = "empty" THEN TRUE ELSE res.ok
       IN  /\ m_success_count' = IF success THEN m_success_count + 1
                                 ELSE m_success_count
           /\ m_has_data_count' = IF outcome = "rows" THEN m_has_data_count + 1
                                  ELSE m_has_data_count
           /\ m_written' = m_written + res.written
           /\ m_log' = Append(m_log, [outcome |-> outcome, rows |-> n,
                                      ok |-> success, written |-> res.written])
    /\ m_i' = m_i + 1
    /\ UNCHANGED <<m_pc, m_kind, m_result, mFrame>>

\* the end of the loop (collectors.py:314-315, 468-484); early: the run is
\* for today, before 20:00, and _should_retry_index_collection is true
FinishMulti(early) ==
    /\ m_pc = "loop" /\ m_i > Entities(m_kind)
    /\ (early => m_kind = "indexes")
    /\ m_result' = IF /\ m_kind = "indexes" /\ early
                      /\ m_has_data_count = 0
                      /\ m_success_count = Entities(m_kind)
                   THEN TRUE
                   ELSE ReturnsSuccess(m_success_count, Entities(m_kind))
    /\ m_pc' = "done"
    /\ UNCHANGED <<m_kind, m_i, m_success_count, m_has_data_count, m_written,
                   m_log, mFrame>>

InitMulti ==
    /\ daily_quote = {} /\ stock_news = {} /\ index_data = {}
    /\ m_pc = "idle" /\ m_kind = "" /\ m_i = 0 /\ m_success_count = 0
    /\ m_has_data_count = 0 /\ m_written = 0 /\ m_log = <<>>
    /\ m_result = FALSE
    /\ gIdle /\ hIdle /\ nIdle /\ iIdle /\ rIdle /\ cIdle /\ fIdle /\ tIdle
    /\ pIdle /\ dIdle
    /\ xIdle
    /\ yIdle
    /\ bIdle
    /\ kIdle
    /\ zIdle
    /\ eIdle
    /\ oIdle
    /\ qIdle
    /\ jIdle
    /\ uIdle

NextMulti ==
    \/ \E kind \in {"stocks", "indexes"}, listOk \in BOOLEAN :
          StartMulti(kind, listOk)
    \/ /\ m_pc = "loop"
       /\ \E outcome \in {"skip", "raise", "empty", "rows"},
             n \in RowCounts \cup {0}, failAt \in 0..2 :
             MultiStep(outcome, n, failAt)
    \/ \E early \in BOOLEAN : FinishMulti(early)

SpecMulti == InitMulti /\ [][NextMulti]_vars

\* ------------------- two index collections for the same day, interleaved
\* the two calls: delayed_retry in its background thread (collectors.py:
\* 567-572) and a collection started by hand while it runs
Runs == {"retry", "manual"}

\* datetime.now() of a call, written to update_time (collectors.py:520)
Stamp(run) == IF run = "retry" THEN 1 ELSE 2

\* the filtered DataFrame of an index for today, with its added columns
\* (collectors.py:506-520)
TodayIndexRows(index_code, run) ==
    <<[index_code |-> index_code, trade_date |-> Today, close |-> 1,
       update_time |-> Stamp(run)]>>

\* a call collect_all_indexes_history(today, today, ...) up to its loop
RaceStart(run) ==
    /\ x_pc[run] = "idle"
    /\ x_pc' = [x_pc EXCEPT ![run] = "fetch"]
    /\ x_i' = [x_i EXCEPT ![run] = 1]
    /\ UNCHANGED <<index_data, x_df, x_success_count, x_has_data_count,
                   x_written, x_result, x_last, x_switches, xFrame>>

\* collect_index_history_with_data_check up to the call of upsert_dataframe
\* (collectors.py:489-528): the fetch raises, has no row for today, or has
\* today's row
RaceFetch(run, outcome) ==
    /\ x_pc[run] = "fetch" /\ x_i[run] <= RaceIndexes
    /\ IF outcome = "series"
       THEN /\ x_df' = [x_df EXCEPT ![run] = TodayIndexRows(x_i[run], run)]
            /\ x_pc' = [x_pc EXCEPT ![run] = "upsert"]
            /\ UNCHANGED <<x_i, x_success_count>>
       ELSE /\ x_i' = [x_i EXCEPT ![run] = @ + 1]
            /\ x_success_count' =
                  [x_success_count EXCEPT ![run] =
                      IF outcome = "empty" THEN @ + 1 ELSE @]
            /\ UNCHANGED <<x_df, x_pc>>
    /\ UNCHANGED <<index_data, x_has_data_count, x_written, x_result, x_last,
                   x_switches, xFrame>>

\* db.upsert_dataframe(df, 'index_data', ['index_code', 'trade_date']) and
\* the counting of the result (collectors.py:531-540, 460-463)
RaceUpsert(run, failAt) ==
    /\ x_pc[run] = "upsert"
    /\ failAt \in 0..NumCalls(Len(x_df[run]))
    /\ LET res == upsert_dataframe(x_df[run], index_data,
                                   ConflictColumns("index_data"), failAt)
       IN  /\ index_data' = res.table
           /\ x_written' = [x_written EXCEPT ![run] =
                               IF res.ok THEN @ \cup Range(x_df[run]) ELSE @]
           /\ x_success_count' = [x_success_count EXCEPT ![run] =
                                     IF res.ok THEN @ + 1 ELSE @]
           /\ x_switches' =
                 IF res.ok /\ x_last \notin {"", run} /\ x_switches < 2
                 THEN x_switches + 1 ELSE x_switches
           /\ x_last' = IF res.ok THEN run ELSE x_last
    /\ x_has_data_count' = [x_has_data_count EXCEPT ![run] = @ + 1]
    /\ x_df' = [x_df EXCEPT ![run] = <<>>]
    /\ x_i' = [x_i EXCEPT ![run] = @ + 1]
    /\ x_pc' = [x_pc EXCEPT ![run] = "fetch"]
    /\ UNCHANGED <<x_result, xFrame>>

\* the end of the call (collectors.py:468-484); early: it is before 20:00 on
\* a weekday evening, when an all-empty run arranges a retry and returns True
RaceFinish(run, early) ==
    /\ x_pc[run] = "fetch" /\ x_i[run] > RaceIndexes
    /\ x_result' = [x_result EXCEPT ![run] =
          IF /\ early /\ x_has_data_count[run] = 0
             /\ x_success_count[run] = RaceIndexes
          THEN TRUE ELSE x_success_count[run] > 0]
    /\ x_pc' = [x_pc EXCEPT ![run] = "done"]
    /\ UNCHANGED <<index_data, x_i, x_df, x_success_count, x_has_data_count,
                   x_written, x_last, x_switches, xFrame>>

InitRace ==
    /\ daily_quote = {} /\ stock_news = {} /\ index_data = {}
    /\ x_pc = [run \in Runs |-> "idle"]
    /\ x_i = [run \in Runs |-> 0]
    /\ x_df = [run \in Runs |-> <<>>]
    /\ x_success_count = [run \in Runs |-> 0]
    /\ x_has_data_count = [run \in Runs |-> 0]
    /\ x_written = [run \in Runs |-> {}]
    /\ x_result = [run \in Runs |-> FALSE]
    /\ x_last = "" /\ x_switches = 0
    /\ gIdle /\ hIdle /\ nIdle /\ iIdle /\ rIdle /\ cIdle /\ fIdle /\ tIdle
    /\ pIdle /\ dIdle /\ mIdle
    /\ yIdle
    /\ bIdle
    /\ kIdle
    /\ zIdle
    /\ eIdle
    /\ oIdle
    /\ qIdle
    /\ jIdle
    /\ uIdle

NextRace ==
    \E run \in Runs :
        \/ RaceStart(run)
        \/ \E outcome \in {"raise", "empty", "series"} :
              RaceFetch(run, outcome)
        \/ \E failAt \in 0..1 : RaceUpsert(run, failAt)
        \/ \E early \in BOOLEAN : RaceFinish(run, early)

SpecRace == InitRace /\ [][NextRace]_vars

\* ------------------------- two history runs for the same window, interleaved
\* the two processes running collect_all_stocks_history
Procs == {1, 2}

PairList == [j \in 1..PairStocks |-> j]

\* rows stored by an earlier collection for the days ds
StoredQuotes(ds) ==
    {[stock_code |-> s, trade_date |-> d, close |-> 0] :
        s \in 1..PairStocks, d \in ds}

NoPairLog ==
    [resolved |-> FALSE, seen |-> None, skipped |-> FALSE, window |-> <<>>,
     answered |-> FALSE, ok |-> FALSE]

\* a call of collect_all_stocks_history up to its loop (collectors.py:270-278)
PairStart(p) ==
    /\ y_pc[p] = "idle"
    /\ y_pc' = [y_pc EXCEPT ![p] = "resolve"]
    /\ y_i' = [y_i EXCEPT ![p] = 1]
    /\ UNCHANGED <<daily_quote, y_req, y_before, y_start, y_df,
                   y_success_count, y_result, y_log, yFrame>>

\* the resume check of a call for its stock i (collectors.py:283-301)
PairResolve(p, readOk) ==
    /\ y_pc[p] = "resolve" /\ y_i[p] <= PairStocks
    /\ LET s == PairList[y_i[p]]
           latest_date == get_latest_date(daily_quote, s, readOk)
           start == ResolveStart(latest_date, y_req.start_date, y_req.end_date)
           noted == [y_log[p][s] EXCEPT !.resolved = TRUE, !.seen = latest_date]
       IN  IF start = SkipStock
           THEN /\ y_i' = [y_i EXCEPT ![p] = @ + 1]
                /\ y_log' = [y_log EXCEPT ![p][s] =
                                [noted EXCEPT !.skipped = TRUE]]
                /\ UNCHANGED <<y_pc, y_start>>
           ELSE /\ y_start' = [y_start EXCEPT ![p] = start]
                /\ y_pc' = [y_pc EXCEPT ![p] = "fetch"]
                /\ y_log' = [y_log EXCEPT ![p][s] = noted]
                /\ UNCHANGED y_i
    /\ UNCHANGED <<daily_quote, y_req, y_before, y_df, y_success_count,
                   y_result, yFrame>>

\* collect_stock_history up to the call of upsert_dataframe
\* (collectors.py:198-243): safe_request gives up, or the provider answers
PairFetch(p, fetchOk) ==
    /\ y_pc[p] = "fetch"
    /\ LET s == PairList[y_i[p]]
           df == ProviderRows(s, y_start[p], y_req.end_date, p)
       IN  IF ~fetchOk
           THEN /\ y_i' = [y_i EXCEPT ![p] = @ + 1]
                /\ y_pc' = [y_pc EXCEPT ![p] = "resolve"]
                /\ UNCHANGED <<y_df, y_success_count, y_log>>
           ELSE IF Len(df) = 0
           THEN /\ y_i' = [y_i EXCEPT ![p] = @ + 1]
                /\ y_pc' = [y_pc EXCEPT ![p] = "resolve"]
                /\ y_success_count' = [y_success_count EXCEPT ![p] = @ + 1]
                /\ y_log' = [y_log EXCEPT ![p][s] =
                      [@ EXCEPT !.window = <<y_start[p], y_req.end_date>>,
                                !.answered = TRUE, !.ok = TRUE]]
                /\ UNCHANGED y_df
           ELSE /\ y_df' = [y_df EXCEPT ![p] = df]
                /\ y_pc' = [y_pc EXCEPT ![p] = "upsert"]
                /\ y_log' = [y_log EXCEPT ![p][s] =
                      [@ EXCEPT !.window = <<y_start[p], y_req.end_date>>,
                                !.answered = TRUE]]
                /\ UNCHANGED <<y_i, y_success_count>>
    /\ UNCHANGED <<daily_quote, y_req, y_before, y_start, y_result, yFrame>>

\* db.upsert_dataframe(df, 'daily_quote', ['stock_code', 'trade_date']) and
\* the caller's count (collectors.py:246-257, 304-305)
PairUpsert(p, failAt) ==
    /\ y_pc[p] = "upsert"
    /\ failAt \in 0..NumCalls(Len(y_df[p]))
    /\ LET s == PairList[y_i[p]]
           res == upsert_dataframe(y_df[p], daily_quote,
                                   ConflictColumns("daily_quote"), failAt)
       IN  /\ daily_quote' = res.table
           /\ y_success_count' = [y_success_count EXCEPT ![p] =
                                     IF res.ok THEN @ + 1 ELSE @]
           /\ y_log' = [y_log EXCEPT ![p][s].ok = res.ok]
    /\ y_df' = [y_df EXCEPT ![p] = <<>>]
    /\ y_i' = [y_i EXCEPT ![p] = @ + 1]
    /\ y_pc' = [y_pc EXCEPT ![p] = "resolve"]
    /\ UNCHANGED <<y_req, y_before, y_start, y_result, yFrame>>

\* "return success_count > 0" (collectors.py:314-315)
PairFinish(p) ==
    /\ y_pc[p] = "resolve" /\ y_i[p] > PairStocks
    /\ y_pc' = [y_pc EXCEPT ![p] = "done"]
    /\ y_result' = [y_result EXCEPT ![p] = y_success_count[p] > 0]
    /\ UNCHANGED <<daily_quote, y_req, y_before, y_i, y_start, y_df,
                   y_success_count, y_log, yFrame>>

InitPair ==
    /\ market \in Markets
    /\ \E k \in 1..NumDays :
          daily_quote = StoredQuotes({DayAt(j) : j \in 1..(k - 1)} \cap market)
    /\ y_before = daily_quote
    /\ \E S \in DateStrs, E \in DateStrs :
          /\ S <= E
          /\ y_req = [start_date |-> S, end_date |-> E]
    /\ y_pc = [p \in Procs |-> "idle"]
    /\ y_i = [p \in Procs |-> 0]
    /\ y_start = [p \in Procs |-> None]
    /\ y_df = [p \in Procs |-> <<>>]
    /\ y_success_count = [p \in Procs |-> 0]
    /\ y_result = [p \in Procs |-> FALSE]
    /\ y_log = [p \in Procs |-> [s \in 1..PairStocks |-> NoPairLog]]
    /\ h_pc = "off" /\ h_req = <<>> /\ h_i = 0 /\ h_start = None
    /\ h_attempt = 0 /\ success_count = 0 /\ skip_count = 0
    /\ h_result = FALSE /\ h_runs = 0 /\ h_log = <<>>
    /\ stock_news = {} /\ index_data = {}
    /\ gIdle /\ nIdle /\ iIdle /\ rIdle /\ cIdle /\ fIdle /\ tIdle
    /\ pIdle /\ dIdle /\ mIdle /\ xIdle
    /\ bIdle
    /\ kIdle
    /\ zIdle
    /\ eIdle
    /\ oIdle
    /\ qIdle
    /\ jIdle
    /\ uIdle

NextPair ==
    \E p \in Procs :
        \/ PairStart(p)
        \/ \E readOk \in BOOLEAN : PairResolve(p, readOk)
        \/ \E fetchOk \in BOOLEAN : PairFetch(p, fetchOk)
        \/ \E failAt \in 0..1 : PairUpsert(p, failAt)
        \/ PairFinish(p)

SpecPair == InitPair /\ [][NextPair]_vars

\* ------------------------------- the entry points and what they contain
\* a call made by an entry point: what is called, the failure it is exposed
\* to ("provider": the fetch raises or its data cannot be converted,
\* "storage": the store raises, "any": either), who catches it ("try": the try/except of the
\* entry point, "item": a try/except inside its loop, "callee": the called
\* function catches and answers with its failure value, "none": nobody),
\* what a failure then does ("return_false", "fail_item": the item of the
\* loop is not counted, "ignore": the run goes on), and the item of the loop
\* the call belongs to (0: outside a loop)
Call(call, kind, handler, effect, item) ==
    [call |-> call, kind |-> kind, handler |-> handler, effect |-> effect,
     item |-> item]

\* fetch, conversion and upsert inside one try/except that returns False:
\* collect (78-174, 604-683), collect_stock_history (198-261),
\* collect_hot_rank (693-750), collect_hot_up (760-818),
\* collect_hsgt_fund_flow (828-895)
FetchConvertUpsert ==
    <<Call("safe_request", "provider", "try", "return_false", 0),
      Call("convert", "provider", "try", "return_false", 0),
      Call("upsert_dataframe", "storage", "callee", "fail_item", 0)>>

\* the calls of each entry point, loops unrolled to two items (three
\* attempts for collect_latest_quotes)
Calls(entry) ==
    IF entry = "collect_all_stocks_history"
    THEN <<Call("get_stock_list", "storage", "callee", "return_false", 0),
           Call("get_latest_date", "storage", "callee", "ignore", 1),
           Call("collect_stock_history", "any", "callee", "fail_item", 1),
           Call("get_latest_date", "storage", "callee", "ignore", 2),
           Call("collect_stock_history", "any", "callee", "fail_item", 2)>>
    ELSE IF entry = "collect_latest_quotes"
    THEN <<Call("collect_latest_quotes_batch", "any", "callee", "fail_item", 1),
           Call("collect_latest_quotes_batch", "any", "callee", "fail_item", 2),
           Call("collect_latest_quotes_batch", "any", "callee", "fail_item", 3)>>
    ELSE IF entry = "collect_all_indexes_history"
    THEN <<Call("collect_index_history_with_data_check", "any", "callee",
                "fail_item", 1),
           Call("collect_index_history_with_data_check", "any", "callee",
                "fail_item", 2)>>
    ELSE IF entry = "collect_fund_flow_rank"
    THEN <<Call("safe_request", "provider", "item", "fail_item", 1),
           Call("convert", "provider", "item", "fail_item", 1),
           Call("get_stock_list", "storage", "callee", "ignore", 1),
           Call("upsert_dataframe", "storage", "callee", "fail_item", 1),
           Call("safe_request", "provider", "item", "fail_item", 2),
           Call("convert", "provider", "item", "fail_item", 2),
           Call("get_stock_list", "storage", "callee", "ignore", 2),
           Call("upsert_dataframe", "storage", "callee", "fail_item", 2)>>
    ELSE IF entry = "collect_news"
    THEN <<Call("safe_request", "provider", "try", "return_false", 0),
           Call("convert", "provider", "try", "return_false", 0),
           Call("lookup", "storage", "item", "ignore", 1),
           Call("convert", "provider", "item", "ignore", 1),
           Call("lookup", "storage", "item", "ignore", 2),
           Call("convert", "provider", "item", "ignore", 2),
           Call("upsert_dataframe", "storage", "callee", "fail_item", 0),
           Call("cleanup", "storage", "callee", "ignore", 0)>>
    ELSE FetchConvertUpsert

\* the entry points; "collect" is that of the stock basics and that of the
\* trade calendar
EntryPoints ==
    {"collect_basic", "collect_calendar", "collect_stock_history",
     "collect_all_stocks_history", "collect_latest_quotes",
     "collect_all_indexes_history", "collect_hot_rank", "collect_hot_up",
     "collect_hsgt_fund_flow", "collect_fund_flow_rank", "collect_news"}

\* how the return value is made: "first" returns True at the first item that
\* succeeds (collectors.py:414-417), "any" returns success_count > 0
\* (315, 484), "all" returns the flag that any failure clears
Rule(entry) ==
    IF entry = "collect_latest_quotes" THEN "first"
    ELSE IF entry \in {"collect_all_stocks_history",
                       "collect_all_indexes_history"} THEN "any"
    ELSE "all"

\* get_latest_date letting the storage error out
HandlerReadsUnguarded(c) ==
    IF c.call = "get_latest_date" THEN "none" ELSE c.handler

\* who catches a failure of the call
HandlerOf(c) == c.handler

\* the place of the first call after the item of call k
AfterItem(calls, k) ==
    LET later == {j \in (k + 1)..Len(calls) : calls[j].item # calls[k].item}
    IN  IF later = {} THEN Len(calls) + 1
        ELSE CHOOSE j \in later : \A j2 \in later : j <= j2

\* the value returned when the calls are over
Returned(entry, failed, good) ==
    IF Rule(entry) = "first" THEN FALSE
    ELSE IF Rule(entry) = "any" THEN good > 0
    ELSE \A j \in failed : Calls(entry)[j].effect = "ignore"

\* an entry point is called
EnterCollector(entry) ==
    /\ b_pc \in {"idle", "returned", "escaped"}
    /\ b_entry' = entry /\ b_pc' = "running" /\ b_k' = 1
    /\ b_failed' = {} /\ b_good' = 0 /\ b_out' = FALSE
    /\ UNCHANGED bFrame

\* the next call of the entry point is made; fails: it meets a failure
CallStep(fails) ==
    /\ b_pc = "running" /\ b_k <= Len(Calls(b_entry))
    /\ LET calls == Calls(b_entry)
           c == calls[b_k]
           last_of_item == b_k = Len(calls) \/ calls[b_k + 1].item # c.item
           item_done == c.item # 0 /\ last_of_item /\ c.effect = "fail_item"
       IN  IF ~fails
           THEN /\ b_good' = IF item_done THEN b_good + 1 ELSE b_good
                /\ IF item_done /\ Rule(b_entry) = "first"
                   THEN b_pc' = "returned" /\ b_out' = TRUE
                   ELSE UNCHANGED <<b_pc, b_out>>
                /\ b_k' = b_k + 1
                /\ UNCHANGED b_failed
           ELSE /\ b_failed' = b_failed \cup {b_k}
                /\ UNCHANGED b_good
                /\ IF HandlerOf(c) = "none"
                   THEN b_pc' = "escaped" /\ UNCHANGED <<b_k, b_out>>
                   ELSE IF c.effect = "return_false"
                   THEN b_pc' = "returned" /\ b_out' = FALSE /\ UNCHANGED b_k
                   ELSE /\ b_k' = IF HandlerOf(c) = "item" /\ c.effect = "fail_item"
                                  THEN AfterItem(calls, b_k) ELSE b_k + 1
                        /\ UNCHANGED <<b_pc, b_out>>
    /\ UNCHANGED <<b_entry, bFrame>>

\* the calls are over: the entry point returns
ReturnStep ==
    /\ b_pc = "running" /\ b_k > Len(Calls(b_entry))
    /\ b_pc' = "returned"
    /\ b_out' = Returned(b_entry, b_failed, b_good)
    /\ UNCHANGED <<b_entry, b_k, b_failed, b_good, bFrame>>

InitBoundary ==
    /\ daily_quote = {} /\ stock_news = {} /\ index_data = {}
    /\ b_entry = "" /\ b_pc = "idle" /\ b_k = 0 /\ b_failed = {}
    /\ b_good = 0 /\ b_out = FALSE
    /\ gIdle /\ hIdle /\ nIdle /\ iIdle /\ rIdle /\ cIdle /\ fIdle /\ tIdle
    /\ pIdle /\ dIdle /\ mIdle /\ xIdle /\ yIdle
    /\ kIdle
    /\ zIdle
    /\ eIdle
    /\ oIdle
    /\ qIdle
    /\ jIdle
    /\ uIdle

NextBoundary ==
    \/ \E entry \in EntryPoints : EnterCollector(entry)
    \/ \E fails \in BOOLEAN : CallStep(fails)
    \/ ReturnStep

SpecBoundary == InitBoundary /\ [][NextBoundary]_vars

\* ------------------- backfills beside collect_latest_quotes_batch
\* calls of the daily collection tried
MaxDaily == 1

\* ak.stock_zh_a_spot_em() after the renaming and the trade_date column: one
\* row per listed stock, dated today (collectors.py:324, 356-360)
SpotRows == Snapshot(NumStocks, 0)

\* a call of collect_latest_quotes_batch on a trading day: fetch, clean,
\* upsert on (stock_code, trade_date) (collectors.py:317-401)
DailyQuotes(fetchOk, failAt) ==
    /\ k_calls < MaxDaily
    /\ Today \in market
    /\ k_calls' = k_calls + 1
    /\ IF fetchOk
       THEN LET res == upsert_dataframe(SpotRows, daily_quote,
                                        ConflictColumns("daily_quote"), failAt)
            IN  /\ failAt \in 0..NumCalls(Len(SpotRows))
                /\ daily_quote' = res.table
                /\ k_result' = res.ok
       ELSE /\ failAt = 0
            /\ k_result' = FALSE
            /\ UNCHANGED daily_quote
    /\ UNCHANGED kFrame

InitBackfill == InitHistory

NextBackfill ==
    \/ NextHistory
    \/ \E fetchOk \in BOOLEAN, failAt \in 0..1 : DailyQuotes(fetchOk, failAt)

SpecBackfill == InitBackfill /\ [][NextBackfill]_vars

\* ------------------------ a backfill of several batches and its restart
RECURSIVE AddDays(_, _)
\* dt + timedelta(days=k)
AddDays(dt, k) ==
    LET left == DaysInMonth(dt[1], dt[2]) - dt[3]
    IN  IF k <= left THEN <<dt[1], dt[2], dt[3] + k>>
        ELSE AddDays(PlusOneDay(<<dt[1], dt[2], dt[3] + left>>), k - left - 1)

\* the calendar days of a window longer than one storage batch
LongDays == batch_size + ExtraDays

LongCalendar == [n \in 1..LongDays |-> AddDays(strptime(FirstDay), n - 1)]

\* the days the provider has quotes for: all but the last one of the window
LongMarket == {LongCalendar[n] : n \in 1..(LongDays - 1)}

ProviderOrders == {"ascending", "descending"}

\* ak.stock_zh_a_hist(symbol, start_date, end_date): one row per trading day
\* of the range, in the order the provider chooses
OrderedProviderRows(symbol, start_date, end_date, order) ==
    LET days == SelectSeq(LongCalendar,
                    LAMBDA d : /\ d \in LongMarket
                               /\ start_date <= strftime(d)
                               /\ strftime(d) <= end_date)
        n == Len(days)
    IN  [j \in 1..n |->
            [stock_code |-> symbol,
             trade_date |-> IF order = "ascending" THEN days[j]
                            ELSE days[n + 1 - j],
             close |-> 1]]

RestartList == [j \in 1..RestartStocks |-> j]

\* a call of collect_all_stocks_history(start_date, end_date) with
\* enable_resume, up to its loop (collectors.py:270-278); the second call is
\* the resumed run for the same request
RestartStart(listOk) ==
    /\ z_pc \in {"idle", "done"}
    /\ z_run < 2
    /\ z_run' = z_run + 1
    /\ z_success_count' = 0 /\ z_start' = None
    /\ IF listOk
       THEN z_pc' = "resolve" /\ z_i' = 1 /\ z_result' = FALSE
       ELSE z_pc' = "done" /\ z_i' = 0 /\ z_result' = FALSE
    /\ UNCHANGED <<daily_quote, z_order, z_req, z_df, z_log, zFrame>>

\* the resume check for stock i of the list (collectors.py:283-301)
RestartResolve(readOk) ==
    /\ z_pc = "resolve" /\ z_i <= RestartStocks
    /\ LET s == RestartList[z_i]
           latest_date == get_latest_date(daily_quote, s, readOk)
           start == ResolveStart(latest_date, z_req.start_date, z_req.end_date)
       IN  IF start = SkipStock
           THEN /\ z_i' = z_i + 1
                /\ z_log' = [z_log EXCEPT ![z_run][s] = "skipped"]
                /\ UNCHANGED <<z_pc, z_start>>
           ELSE /\ z_start' = start
                /\ z_pc' = "fetch"
                /\ UNCHANGED <<z_i, z_log>>
    /\ UNCHANGED <<daily_quote, z_order, z_req, z_run, z_df, z_success_count,
                   z_result, zFrame>>

\* collect_stock_history up to the call of upsert_dataframe
\* (collectors.py:198-243): safe_request gives up, or the provider answers
RestartFetch(fetchOk) ==
    /\ z_pc = "fetch"
    /\ LET s == RestartList[z_i]
           df == OrderedProviderRows(s, z_start, z_req.end_date, z_order)
       IN  IF ~fetchOk
           THEN /\ z_i' = z_i + 1 /\ z_pc' = "resolve"
                /\ z_log' = [z_log EXCEPT ![z_run][s] = "nofetch"]
                /\ UNCHANGED <<z_df, z_success_count>>
           ELSE IF Len(df) = 0
           THEN /\ z_i' = z_i + 1 /\ z_pc' = "resolve"
                /\ z_success_count' = z_success_count + 1
                /\ z_log' = [z_log EXCEPT ![z_run][s] = "empty"]
                /\ UNCHANGED z_df
           ELSE /\ z_df' = df
                /\ z_pc' = "upsert"
                /\ UNCHANGED <<z_i, z_success_count, z_log>>
    /\ UNCHANGED <<daily_quote, z_order, z_req, z_run, z_start, z_result,
                   zFrame>>

\* db.upsert_dataframe(df, 'daily_quote', ['stock_code', 'trade_date']) and
\* the caller's count (collectors.py:246-257, 304-305)
RestartUpsert(failAt) ==
    /\ z_pc = "upsert"
    /\ failAt \in 0..NumCalls(Len(z_df))
    /\ LET s == RestartList[z_i]
           res == upsert_dataframe(z_df, daily_quote,
                                   ConflictColumns("daily_quote"), failAt)
       IN  /\ daily_quote' = res.table
           /\ z_success_count' = IF res.ok THEN z_success_count + 1
                                 ELSE z_success_count
           /\ z_log' = [z_log EXCEPT ![z_run][s] =
                           IF res.ok THEN "ok"
                           ELSE IF failAt > 1 THEN "partial" ELSE "failed"]
    /\ z_df' = <<>>
    /\ z_i' = z_i + 1
    /\ z_pc' = "resolve"
    /\ UNCHANGED <<z_order, z_req, z_run, z_start, z_result, zFrame>>

\* "return success_count > 0" (collectors.py:314-315)
RestartFinish ==
    /\ z_pc = "resolve" /\ z_i > RestartStocks
    /\ z_pc' = "done"
    /\ z_result' = (z_success_count > 0)
    /\ UNCHANGED <<daily_quote, z_order, z_req, z_run, z_i, z_start, z_df,
                   z_success_count, z_log, zFrame>>

InitRestart ==
    /\ daily_quote = {} /\ stock_news = {} /\ index_data = {}
    /\ z_order \in ProviderOrders
    /\ \E a \in 1..ExtraDays, b \in (LongDays - 1)..LongDays :
          z_req = [start_date |-> strftime(LongCalendar[a]),
                   end_date |-> strftime(LongCalendar[b])]
    /\ z_run = 0 /\ z_pc = "idle" /\ z_i = 0 /\ z_start = None
    /\ z_df = <<>> /\ z_success_count = 0 /\ z_result = FALSE
    /\ z_log = [r \in 1..2 |-> [s \in 1..RestartStocks |-> "none"]]
    /\ gIdle /\ hIdle /\ nIdle /\ iIdle /\ rIdle /\ cIdle /\ fIdle /\ tIdle
    /\ pIdle /\ dIdle /\ mIdle /\ xIdle /\ yIdle /\ bIdle /\ kIdle
    /\ eIdle
    /\ oIdle
    /\ qIdle
    /\ jIdle
    /\ uIdle

NextRestart ==
    \/ \E listOk \in BOOLEAN : RestartStart(listOk)
    \/ \E readOk \in BOOLEAN : RestartResolve(readOk)
    \/ \E fetchOk \in BOOLEAN : RestartFetch(fetchOk)
    \/ \E failAt \in 0..2 : RestartUpsert(failAt)
    \/ RestartFinish

SpecRestart == InitRestart /\ [][NextRestart]_vars

\* ----------------------- change of collect_index_history_with_data_check
\* the closes tried: 10 a day upwards, varied by 0..2, so that no difference
\* of two closes is one of the values standing for None, NaN or ''
CloseVariations == 0..2

\* the close of the n-th day of the provider's series
CloseAt(close, n) == 10 * n + close[n]

\* ak.stock_zh_index_daily(symbol): the whole daily series, oldest first
CloseSeries(close) ==
    [n \in 1..NumDays |-> [date |-> DayAt(n), close |-> CloseAt(close, n)]]

\* df['close'].diff() on the sorted DataFrame: NaN in the first row, then
\* the difference to the row before (collectors.py:523-524)
Diff(df) ==
    [j \in 1..Len(df) |->
        IF j = 1 THEN NaN ELSE df[j].close - df[j - 1].close]

\* the date filter, the added columns, the change column and clean_dataframe
\* (collectors.py:506-528)
ChangeRows(index_code, series, start_date, end_date) ==
    LET df == SelectSeq(series,
                  LAMBDA r : /\ DateLeq(strptime(start_date), r.date)
                             /\ DateLeq(r.date, strptime(end_date)))
        change == Diff(df)
    IN  [j \in 1..Len(df) |->
            [index_code |-> index_code, trade_date |-> df[j].date,
             close |-> clean_cell(df[j].close),
             change |-> clean_cell(change[j])]]

\* a call of collect_index_history_with_data_check(index_code, index_name,
\* start_date, end_date) (collectors.py:486-544); outcome is what
\* safe_request gives: "raise", "empty" (an empty DataFrame), "series"
CollectIndexHistory(index_code, start_date, end_date, outcome, failAt) ==
    /\ e_calls < MaxIndexCalls
    /\ start_date <= end_date
    /\ LET df == IF outcome = "series"
                 THEN ChangeRows(index_code, CloseSeries(e_close), start_date,
                                 end_date)
                 ELSE <<>>
           res == upsert_dataframe(df, index_data,
                                   ConflictColumns("index_data"), failAt)
       IN  /\ failAt \in 0..NumCalls(Len(df))
           /\ index_data' = res.table
           /\ e_sent' = df
           /\ e_result' =
                 IF outcome = "raise"
                 THEN [success |-> FALSE, has_data |-> FALSE]
                 ELSE IF Len(df) = 0
                 THEN [success |-> TRUE, has_data |-> FALSE]
                 ELSE [success |-> res.ok, has_data |-> TRUE]
    /\ e_before' = index_data
    /\ e_calls' = e_calls + 1
    /\ e_req' = [index_code |-> index_code, start_date |-> start_date,
                 end_date |-> end_date]
    /\ UNCHANGED <<e_close, eFrame>>

InitChange ==
    /\ daily_quote = {} /\ stock_news = {} /\ index_data = {}
    /\ e_close \in [1..NumDays -> CloseVariations]
    /\ e_calls = 0 /\ e_req = <<>> /\ e_sent = <<>> /\ e_before = {}
    /\ e_result = <<>>
    /\ gIdle /\ hIdle /\ nIdle /\ iIdle /\ rIdle /\ cIdle /\ fIdle /\ tIdle
    /\ pIdle /\ dIdle /\ mIdle /\ xIdle /\ yIdle /\ bIdle /\ kIdle /\ zIdle
    /\ oIdle
    /\ qIdle
    /\ jIdle
    /\ uIdle

NextChange ==
    \E index_code \in 1..2, S \in DateStrs, E \in DateStrs,
       outcome \in {"raise", "empty", "series"}, failAt \in 0..1 :
        CollectIndexHistory(index_code, S, E, outcome, failAt)

SpecChange == InitChange /\ [][NextChange]_vars

\* ------------------------------------- collect_hot_rank, collect_hot_up
HotCollectors == {"hot_rank", "hot_up"}

\* ak.stock_hot_rank_em() / ak.stock_hot_up_em(): a snapshot of n ranked
\* rows; the code cell of a row may be empty
HotSnapshots ==
    UNION {[1..n -> [current_rank : 1..MaxRanks, stock_code : {1, 2, EmptyStr}]]
              : n \in 0..MaxRanks}

\* a snapshot lists the ranks 1..n in order
Ranked(snapshot) == \A j \in 1..Len(snapshot) : snapshot[j].current_rank = j

\* the renaming, trade_date = today, pd.to_numeric, clean_dataframe and
\* dropna(subset=['stock_code', 'current_rank']) (collectors.py:704-731,
\* 771-799)
HotRows(snapshot, today) ==
    LET df == [j \in 1..Len(snapshot) |->
                 [trade_date |-> today,
                  current_rank |->
                      clean_cell(to_numeric(snapshot[j].current_rank)),
                  stock_code |-> clean_text(snapshot[j].stock_code)]]
    IN  SelectSeq(df, LAMBDA r : /\ r.stock_code # None
                                 /\ r.current_rank \notin {None, NaN})

\* the table a hot collector writes
HotTable(name) == IF name = "hot_rank" THEN stock_hot_rank ELSE stock_hot_up

\* a call of collect_hot_rank or collect_hot_up (collectors.py:689-750,
\* 756-818): fetchOk is whether safe_request returns, failAt the storage call
\* that raises
CollectHot(name, snapshot, fetchOk, failAt) ==
    /\ o_calls < MaxSnapshots
    /\ Ranked(snapshot)
    /\ o_calls' = o_calls + 1
    /\ IF ~fetchOk \/ Len(snapshot) = 0
       THEN /\ failAt = 0
            /\ o_last' = [name |-> name, df |-> <<>>, day |-> o_today,
                          fetched |-> FALSE, ok |-> FALSE]
            /\ UNCHANGED <<stock_hot_rank, stock_hot_up>>
       ELSE LET df == HotRows(snapshot, DayAt(o_today))
                res == upsert_dataframe(df, HotTable(name),
                           ConflictColumns(IF name = "hot_rank"
                                           THEN "stock_hot_rank"
                                           ELSE "stock_hot_up"), failAt)
            IN  /\ failAt \in 0..NumCalls(Len(df))
                /\ IF name = "hot_rank"
                   THEN /\ stock_hot_rank' = res.table
                        /\ UNCHANGED stock_hot_up
                   ELSE /\ stock_hot_up' = res.table
                        /\ UNCHANGED stock_hot_rank
                /\ o_last' = [name |-> name, df |-> df, day |-> o_today,
                              fetched |-> TRUE, ok |-> res.ok]
    /\ UNCHANGED <<o_today, oFrame>>

\* midnight: datetime.now().date() is the next day
NextDay ==
    /\ o_today \in 1..(NumDays - 1)
    /\ o_today' = o_today + 1
    /\ UNCHANGED <<stock_hot_rank, stock_hot_up, o_calls, o_last, oFrame>>

InitHot ==
    /\ daily_quote = {} /\ stock_news = {} /\ index_data = {}
    /\ stock_hot_rank = {} /\ stock_hot_up = {}
    /\ o_today = 1 /\ o_calls = 0 /\ o_last = <<>>
    /\ gIdle /\ hIdle /\ nIdle /\ iIdle /\ rIdle /\ cIdle /\ fIdle /\ tIdle
    /\ pIdle /\ dIdle /\ mIdle /\ xIdle /\ yIdle /\ bIdle /\ kIdle /\ zIdle
    /\ eIdle
    /\ qIdle
    /\ jIdle
    /\ uIdle

NextHot ==
    \/ \E name \in HotCollectors, snapshot \in HotSnapshots,
          fetchOk \in BOOLEAN, failAt \in 0..1 :
           CollectHot(name, snapshot, fetchOk, failAt)
    \/ NextDay

SpecHot == InitHot /\ [][NextHot]_vars

\* ------------------------------------------ TradeCalendarCollector.collect
Years == FirstYear..(FirstYear + CalendarYears - 1)

\* the trade dates the provider may list: a day of the first year, its last
\* day, and a day after the years requested
TradeDateChoices ==
    {<<FirstYear, 1, 3>>, <<FirstYear, 12, 31>>,
     <<FirstYear + CalendarYears, 1, 2>>}

\* the while loop that stops one day early
CalendarDatesExclusive(start_year, end_year) ==
    LET start_date == <<start_year, 1, 1>>
        end_date == <<end_year, 12, 31>>
        steps == [n \in 1..(366 * CalendarYears) |->
                     AddDays(start_date, n - 1)]
    IN  SelectSeq(steps, LAMBDA d : DateLeq(d, end_date) /\ d # end_date)

\* "while current_date <= end_date: ... current_date += timedelta(days=1)"
\* from 1 January of start_year to 31 December of end_year
\* (collectors.py:629-648)
CalendarDates(start_year, end_year) ==
    LET start_date == <<start_year, 1, 1>>
        end_date == <<end_year, 12, 31>>
        steps == [n \in 1..(366 * CalendarYears) |->
                     AddDays(start_date, n - 1)]
    IN  SelectSeq(steps, LAMBDA d : DateLeq(d, end_date))

\* calendar_df: one record per generated date (collectors.py:638-651)
CalendarRows(start_year, end_year, trade_dates_set) ==
    LET days == CalendarDates(start_year, end_year)
    IN  [j \in 1..Len(days) |->
            [calendar_date |-> days[j],
             is_trade_day |-> days[j] \in trade_dates_set]]

\* a call of collect(start_year, end_year) (collectors.py:604-683): fetchOk
\* is whether safe_request returns, trade_dates the provider's answer,
\* failAt the storage call that raises
CollectCalendar(start_year, end_year, trade_dates, fetchOk, failAt) ==
    /\ q_pc = "idle"
    /\ q_pc' = "done"
    /\ q_req' = [start_year |-> start_year, end_year |-> end_year]
    /\ q_answer' = trade_dates /\ q_fetched' = fetchOk
    /\ q_before' = trade_calendar
    /\ IF ~fetchOk \/ trade_dates = {}
       THEN /\ failAt = 0
            /\ q_sent' = <<>> /\ q_result' = FALSE
            /\ UNCHANGED trade_calendar
       ELSE LET calendar_df == CalendarRows(start_year, end_year, trade_dates)
                res == upsert_dataframe(calendar_df, trade_calendar,
                           ConflictColumns("trade_calendar"), failAt)
            IN  /\ failAt \in 0..NumCalls(Len(calendar_df))
                /\ trade_calendar' = res.table
                /\ q_sent' = calendar_df
                /\ q_result' = res.ok
    /\ UNCHANGED qFrame

InitCalendar ==
    /\ daily_quote = {} /\ stock_news = {} /\ index_data = {}
    /\ trade_calendar \in
          {{}, {[calendar_date |-> <<FirstYear, 1, 3>>,
                 is_trade_day |-> FALSE]}}
    /\ q_pc = "idle" /\ q_req = <<>> /\ q_answer = {} /\ q_fetched = FALSE
    /\ q_sent = <<>> /\ q_before = {} /\ q_result = FALSE
    /\ gIdle /\ hIdle /\ nIdle /\ iIdle /\ rIdle /\ cIdle /\ fIdle /\ tIdle
    /\ pIdle /\ dIdle /\ mIdle /\ xIdle /\ yIdle /\ bIdle /\ kIdle /\ zIdle
    /\ eIdle /\ oIdle
    /\ jIdle
    /\ uIdle

NextCalendar ==
    /\ q_pc = "idle"
    /\ \E start_year \in Years, end_year \in Years,
          trade_dates \in SUBSET TradeDateChoices, fetchOk \in BOOLEAN,
          failAt \in 0..2 :
           CollectCalendar(start_year, end_year, trade_dates, fetchOk, failAt)

SpecCalendar == InitCalendar /\ [][NextCalendar]_vars

\* --------------------------------- the thread of the delayed index retry
NoThread == [state |-> "none", start_date |-> None, end_date |-> None,
             delay_hours |-> 0, due |-> 0]

\* a thread that outlives the process
NonDaemonRuns(alive) == TRUE

\* a thread started with daemon=True runs only while the process is alive
\* (collectors.py:593-594); no join is made anywhere
DaemonRuns(alive) == alive

\* _retry_index_collection_later(start_date, end_date, delay_hours): the
\* thread is created and started, True is returned (collectors.py:561-598)
ScheduleRetry(start_date, end_date, delay_hours) ==
    /\ j_alive
    /\ j_thread.state \in {"none", "finished"}
    /\ j_sched < MaxTasks
    /\ start_date <= end_date
    /\ j_clock + delay_hours <= MaxClock
    /\ j_thread' = [state |-> "sleeping", start_date |-> start_date,
                    end_date |-> end_date, delay_hours |-> delay_hours,
                    due |-> j_clock + delay_hours]
    /\ j_sched' = j_sched + 1
    /\ j_call' = <<>> /\ j_i' = 0 /\ j_fetched' = {}
    /\ UNCHANGED <<j_mode, j_clock, j_alive, j_steps, j_loops, jFrame>>

\* an hour passes
ClockTick ==
    /\ j_mode # ""
    /\ j_clock < MaxClock
    /\ j_clock' = j_clock + 1
    /\ UNCHANGED <<j_mode, j_alive, j_steps, j_loops, j_thread, j_call, j_i,
                   j_fetched, j_sched, jFrame>>

\* the main thread makes one of its remaining collection steps
\* (main.py:106 onwards)
MainStep ==
    /\ j_alive /\ j_steps > 0
    /\ j_steps' = j_steps - 1
    /\ UNCHANGED <<j_mode, j_clock, j_alive, j_loops, j_thread, j_call, j_i,
                   j_fetched, j_sched, jFrame>>

\* run.py: collect_today_data has returned and the interpreter exits; the
\* daemon thread is not joined and ends with the process
MainExit ==
    /\ j_alive /\ j_steps = 0 /\ j_mode = "run"
    /\ j_alive' = FALSE
    /\ UNCHANGED <<j_mode, j_clock, j_steps, j_loops, j_thread, j_call, j_i,
                   j_fetched, j_sched, jFrame>>

\* scheduler.py: "while True: schedule.run_pending()" keeps the process
SchedulerLoop ==
    /\ j_alive /\ j_steps = 0 /\ j_mode = "scheduler"
    /\ j_loops' = 1 - j_loops
    /\ UNCHANGED <<j_mode, j_clock, j_alive, j_steps, j_thread, j_call, j_i,
                   j_fetched, j_sched, jFrame>>

\* delayed_retry after time.sleep(delay_hours * 3600): the call
\* collect_all_indexes_history(start_date, end_date, retry_delay_hours=0)
\* (collectors.py:567-572)
ThreadWake ==
    /\ DaemonRuns(j_alive)
    /\ j_thread.state = "sleeping"
    /\ j_clock >= j_thread.due
    /\ j_thread' = [j_thread EXCEPT !.state = "collecting"]
    /\ j_call' = [start_date |-> j_thread.start_date,
                  end_date |-> j_thread.end_date,
                  retry_delay_hours |-> retry_delay_again, hour |-> j_clock]
    /\ j_i' = 1
    /\ UNCHANGED <<j_mode, j_clock, j_alive, j_steps, j_loops, j_fetched,
                   j_sched, jFrame>>

\* the retry's loop over index_list: the fetch of index i
\* (collectors.py:458-466)
ThreadFetch ==
    /\ DaemonRuns(j_alive)
    /\ j_thread.state = "collecting"
    /\ j_i <= NumIndexes
    /\ j_fetched' = j_fetched \cup
                       {<<j_i, j_call.start_date, j_call.end_date>>}
    /\ j_i' = j_i + 1
    /\ j_thread' = IF j_i = NumIndexes
                   THEN [j_thread EXCEPT !.state = "finished"]
                   ELSE j_thread
    /\ UNCHANGED <<j_mode, j_clock, j_alive, j_steps, j_loops, j_call,
                   j_sched, jFrame>>

InitThread ==
    /\ daily_quote = {} /\ stock_news = {} /\ index_data = {}
    /\ j_mode \in {"run", "scheduler"}
    /\ j_clock = 0 /\ j_alive = TRUE /\ j_steps \in 0..MaxSteps
    /\ j_loops = 0 /\ j_thread = NoThread /\ j_call = <<>> /\ j_i = 0
    /\ j_fetched = {} /\ j_sched = 0
    /\ gIdle /\ hIdle /\ nIdle /\ iIdle /\ rIdle /\ cIdle /\ fIdle /\ tIdle
    /\ pIdle /\ dIdle /\ mIdle /\ xIdle /\ yIdle /\ bIdle /\ kIdle /\ zIdle
    /\ eIdle /\ oIdle /\ qIdle
    /\ uIdle

NextThread ==
    \/ \E S \in DateStrs, E \in DateStrs,
          delay_hours \in {retry_delay_again, retry_delay_hours} :
           ScheduleRetry(S, E, delay_hours)
    \/ ClockTick
    \/ MainStep
    \/ MainExit
    \/ SchedulerLoop
    \/ ThreadWake
    \/ ThreadFetch

SpecThread == InitThread /\ [][NextThread]_vars

\* time passes, and a thread of a live process that can run does run
SpecThreadLive ==
    /\ SpecThread
    /\ WF_vars(ClockTick) /\ WF_vars(ThreadWake) /\ WF_vars(ThreadFetch)

\* --------------------------------------------------- Database.get_stock_list
\* the sizes of stock_basic tried: around every page boundary
TableSizes ==
    {0, 1} \cup {k * page_size + e : k \in 1..ListPages, e \in {-1, 0, 1}}

\* the select names no order, so the store may answer each read in any
\* order of the rows: by code upwards, downwards, or upwards from the
\* second row with the first row last
StoreOrders == {"up", "down", "shifted"}

\* the rows of stock_basic in an order of the store
StoredCodes(rows, order) ==
    [j \in 1..rows |-> IF order = "up" THEN j
                       ELSE IF order = "down" THEN rows + 1 - j
                       ELSE (j % rows) + 1]

\* select('stock_code').range(offset, offset + page_size - 1).execute():
\* result.data
PageData(rows, order, offset) ==
    IF offset >= rows THEN <<>>
    ELSE SubSeq(StoredCodes(rows, order), offset + 1,
                IF offset + page_size < rows THEN offset + page_size ELSE rows)

\* a call of get_stock_list up to its loop (database.py:162-166)
StartList ==
    /\ u_pc = "idle"
    /\ u_pc' = "page"
    /\ u_offset' = 0 /\ all_stocks' = <<>> /\ u_orders' = <<>>
    /\ UNCHANGED <<u_rows, u_failed, u_result, uFrame>>

\* one turn of the "while True" loop: the page read, the two breaks, the
\* next offset; a read that raises ends the call with [] (database.py:169-193)
ReadPage(order, readOk) ==
    /\ u_pc = "page"
    /\ IF ~readOk
       THEN /\ u_pc' = "done" /\ u_failed' = TRUE /\ u_result' = <<>>
            /\ UNCHANGED <<u_offset, all_stocks, u_orders>>
       ELSE LET data == PageData(u_rows, order, u_offset)
            IN  /\ u_orders' = Append(u_orders, order)
                /\ IF Len(data) = 0
                   THEN /\ u_pc' = "done" /\ u_result' = all_stocks
                        /\ UNCHANGED <<u_offset, all_stocks>>
                   ELSE /\ all_stocks' = all_stocks \o data
                        /\ IF Len(data) < page_size
                           THEN /\ u_pc' = "done"
                                /\ u_result' = all_stocks \o data
                                /\ UNCHANGED u_offset
                           ELSE /\ u_offset' = u_offset + page_size
                                /\ UNCHANGED <<u_pc, u_result>>
                /\ UNCHANGED u_failed
    /\ UNCHANGED <<u_rows, uFrame>>

InitList ==
    /\ daily_quote = {} /\ stock_news = {} /\ index_data = {}
    /\ u_rows \in TableSizes
    /\ u_pc = "idle" /\ u_offset = 0 /\ all_stocks = <<>> /\ u_orders = <<>>
    /\ u_failed = FALSE /\ u_result = <<>>
    /\ gIdle /\ hIdle /\ nIdle /\ iIdle /\ rIdle /\ cIdle /\ fIdle /\ tIdle
    /\ pIdle /\ dIdle /\ mIdle /\ xIdle /\ yIdle /\ bIdle /\ kIdle /\ zIdle
    /\ eIdle /\ oIdle /\ qIdle /\ jIdle

NextList ==
    \/ StartList
    \/ \E order \in StoreOrders, readOk \in BOOLEAN : ReadPage(order, readOk)

SpecList == InitList /\ [][NextList]_vars

\* ------------------------------------------------- claims on the gateway
\* the rows of a sequence that are the last ones carrying their conflict key
WinningRows(rows, cols) ==
    IF Cardinality({KeyOf(rows[j], cols) : j \in 1..Len(rows)}) = Len(rows)
    THEN Range(rows)
    ELSE {rows[j] : j \in {j1 \in 1..Len(rows) :
            ~ \E j2 \in (j1 + 1)..Len(rows) :
                KeyOf(rows[j2], cols) = KeyOf(rows[j1], cols)}}

\* the records upsert_dataframe makes of the last DataFrame
g_records == [j \in 1..Len(g_df) |-> CleanRecord(g_df[j])]

\* number of rows of the storage calls that succeeded
g_sent ==
    IF g_calls = <<>> THEN 0
    ELSE IF g_calls[Len(g_calls)].ok THEN Len(g_df)
    ELSE (Len(g_calls) - 1) * batch_size

\* C1: no table holds two rows with the same conflict key, and after a
\* successful upsert_dataframe every key written has exactly one stored row,
\* carrying the fields of the latest write of that key
C1_UpsertIdempotent ==
    LET cols == ConflictColumns("daily_quote")
    IN  /\ Cardinality({KeyOf(r, cols) : r \in daily_quote})
              = Cardinality(daily_quote)
        /\ (g_count > 0 /\ g_ok) => WinningRows(g_records, cols) \subseteq daily_quote

\* C1 witness: a second write of a key that was stored with other fields
C1_Witness ==
    /\ g_caller = "rows" /\ g_count = 2 /\ g_ok
    /\ \E r \in g_before : \E j \in 1..Len(g_df) :
          /\ KeyOf(r, ConflictColumns("daily_quote"))
                = KeyOf(g_df[j], ConflictColumns("daily_quote"))
          /\ r.close # CleanRecord(g_df[j]).close
          /\ r \notin daily_quote

\* C5: n rows go out as ceil(n/1000) storage calls in row order, each of at
\* most 1000 rows; a failed call is the last one made, fails the whole
\* upsert, and leaves committed exactly the rows of the calls before it
C5_BatchChunking ==
    g_count > 0 =>
        LET cols == ConflictColumns("daily_quote")
            n == Len(g_df)
            c == Len(g_calls)
            done == SubSeq(g_records, 1, g_sent)
        IN  /\ c <= NumCalls(n)
            /\ \A j \in 1..c :
                  /\ Len(g_calls[j].rows) <= 1000
                  /\ g_calls[j].rows
                        = SubSeq(g_records, (j - 1) * 1000 + 1,
                                 IF j * 1000 < n THEN j * 1000 ELSE n)
                  /\ (j < c => g_calls[j].ok)
            /\ g_ok = (c = NumCalls(n) /\ \A j \in 1..c : g_calls[j].ok)
            /\ daily_quote \subseteq (g_before \cup Range(done))
            /\ WinningRows(done, cols) \subseteq daily_quote
            /\ Cardinality(daily_quote)
                  = Cardinality({KeyOf(r, cols) : r \in g_before \cup Range(done)})

\* C5 witness: 2500 rows whose second call failed, 1000 rows committed
C5_Witness ==
    /\ g_count = 1 /\ Len(g_df) = 2 * batch_size + batch_size \div 2
    /\ Len(g_calls) = 2 /\ ~g_calls[2].ok /\ ~g_ok
    /\ Cardinality(daily_quote) = batch_size


\* ------------------------------------- claims on the resumable backfill
\* the calendar day after day L of the window, as 'YYYYMMDD'
DayAfter(L) ==
    CHOOSE d \in DateStrs : d > L /\ \A e \in DateStrs : e > L => d <= e

LaterOf(a, b) == IF a > b THEN a ELSE b

\* the stocks the current resumed run has resolved with a stored latest date
Watermarked ==
    {s \in 1..NumStocks :
        h_runs > 0 /\ h_req # <<>> /\ h_req.enable_resume
            /\ h_log[s].resolved /\ h_log[s].L # None}

\* C2 as stated: a stock with latest stored date L is skipped iff L >= E, and
\* is otherwise fetched only with (max(L + 1 day, S), E)
C2_Original ==
    \A s \in Watermarked :
        /\ h_log[s].skipped = (h_log[s].L >= h_req.end_date)
        /\ h_log[s].skipped => h_log[s].fetches = {}
        /\ ~h_log[s].skipped =>
              h_log[s].fetches \subseteq
                  {<<LaterOf(DayAfter(h_log[s].L), h_req.start_date),
                     h_req.end_date>>}

\* C2 amended: the same, for a stock whose watermark read answered (a read
\* that fails makes the stock be fetched from S)
C2_ResumeStart ==
    \A s \in Watermarked :
        h_log[s].seen = h_log[s].L =>
            /\ h_log[s].skipped = (h_log[s].L >= h_req.end_date)
            /\ h_log[s].skipped => h_log[s].fetches = {}
            /\ ~h_log[s].skipped =>
                  h_log[s].fetches \subseteq
                      {<<LaterOf(DayAfter(h_log[s].L), h_req.start_date),
                         h_req.end_date>>}

\* C2 witness: the third attempt of a fetch resumed from L + 1 day > S, after
\* the stock before it was skipped or resumed as well
C2_Witness ==
    /\ h_pc = "fetch" /\ h_attempt = 2 /\ h_req.enable_resume
    /\ LET s == StockList[h_i]
       IN  /\ h_log[s].L # None /\ h_log[s].seen = h_log[s].L
           /\ h_req.start_date <= h_log[s].L
           /\ h_log[s].fetches = {<<DayAfter(h_log[s].L), h_req.end_date>>}
    /\ h_i > 1

\* C3 as stated: no fetch of a resumed run asks for a day <= L, the latest
\* date stored for the stock when its start was resolved, and no row handed
\* to upsert has a trade_date <= L
C3_Original ==
    \A s \in Watermarked :
        /\ \A f \in h_log[s].fetches : f[1] > h_log[s].L
        /\ \A r \in h_log[s].rows : strftime(r.trade_date) > h_log[s].L

\* C3 amended: the same, for a stock whose watermark read answered
C3_NoRefetch ==
    \A s \in Watermarked :
        h_log[s].seen = h_log[s].L =>
            /\ \A f \in h_log[s].fetches : f[1] > h_log[s].L
            /\ \A r \in h_log[s].rows : strftime(r.trade_date) > h_log[s].L

\* C3 witness: a second run that resumed a stock past its stored rows and
\* upserted newer rows
C3_Witness ==
    /\ h_runs = 2
    /\ \E s \in Watermarked :
          /\ h_log[s].seen = h_log[s].L
          /\ h_req.start_date <= h_log[s].L
          /\ h_log[s].answered /\ h_log[s].ok /\ h_log[s].rows # {}

\* C4: a stock with no stored row is fetched with the declared (S, E), and
\* after its fetch and upsert succeeded its stored rows are the provider's
\* rows, one per (stock_code, trade_date)
C4_FullCollect ==
    \A s \in 1..NumStocks :
        (h_runs > 0 /\ h_log[s].resolved /\ h_log[s].L = None) =>
            /\ ~h_log[s].skipped
            /\ h_log[s].fetches
                  \subseteq {<<h_req.start_date, h_req.end_date>>}
            /\ (h_log[s].answered /\ h_log[s].ok) =>
                  LET stored == {r \in daily_quote : r.stock_code = s}
                  IN  /\ stored = h_log[s].rows
                      /\ Cardinality({r.trade_date : r \in h_log[s].rows})
                            = Cardinality(stored)

\* C4 witness: a stock without stored rows collected in full, several rows
C4_Witness ==
    \E s \in 1..NumStocks :
        /\ h_log[s].resolved /\ h_log[s].L = None
        /\ h_log[s].answered /\ h_log[s].ok
        /\ Cardinality(h_log[s].rows) >= 2
        /\ {r \in daily_quote : r.stock_code = s} = h_log[s].rows


\* --------------------------------------------- claims on the news collector
\* the feed is k stored URLs followed by m new ones: its k and its m
FeedOld == Cardinality({j \in 1..Len(n_feed) : n_feed[j].url <= MaxOld})
FeedNew == Len(n_feed) - FeedOld
FeedIsOldThenNew == FeedNew <= MaxNew /\ n_feed = OldThenNew(FeedOld, FeedNew)

\* the loop over the rows of the feed has ended
ScanOver == n_pc \in {"upsert", "done"} /\ n_idx = Len(NewsRows)

Least(a, b) == IF a < b THEN a ELSE b

\* C6 as stated: a feed of k stored URLs followed by m new URLs has exactly
\* m items admitted, whatever k
C6_Original ==
    (ScanOver /\ FeedIsOldThenNew) => Len(processed_news) = FeedNew

\* C6 amended: when no lookup raised, the items admitted are the new URLs
\* among the first max_process_count rows, min(m, max(max_process_count - k,
\* 0)) of them: m whenever k + m <= max_process_count
C6_AdmittedCount ==
    (ScanOver /\ FeedIsOldThenNew /\ LookupFailures = 0) =>
        /\ Len(processed_news)
              = Least(FeedNew, IF n_max > FeedOld THEN n_max - FeedOld ELSE 0)
        /\ Len(n_feed) <= n_max => Len(processed_news) = FeedNew

\* C6 witness: more than 100 stored URLs followed by new ones, all examined
C6_Witness ==
    /\ ScanOver /\ FeedIsOldThenNew /\ LookupFailures = 0
    /\ FeedOld = MaxOld /\ FeedNew = MaxNew /\ n_max >= Len(n_feed)
    /\ Len(processed_news) = MaxNew

\* the URLs of the batch, and the URLs a lookup of the run found stored
BatchUrls == {processed_news[j].url : j \in 1..Len(processed_news)}
FoundUrls ==
    {UrlOf(NewsRows[j]) : j \in {i \in 1..Len(n_log) : n_log[i] = "found"}}

\* C7 as stated: the batch holds pairwise-distinct URLs and no URL that a
\* lookup of the run found in stock_news
C7_Original ==
    /\ Cardinality(BatchUrls) = Len(processed_news)
    /\ BatchUrls \cap FoundUrls = {}

\* C7 amended: the batch holds pairwise-distinct URLs, it is made of the rows
\* whose own lookup found nothing or raised, and it holds no URL a lookup
\* found unless a lookup raised
C7_DistinctBatch ==
    /\ Cardinality(BatchUrls) = Len(processed_news)
    /\ Len(n_log) = n_idx
    /\ LET admitted == SelectSeq([j \in 1..Len(n_log) |-> j],
                           LAMBDA j : n_log[j] \in {"absent", "raised"})
       IN  /\ Len(admitted) = Len(processed_news)
           /\ \A j \in 1..Len(admitted) :
                 processed_news[j].url = UrlOf(NewsRows[admitted[j]])
    /\ LookupFailures = 0 => BatchUrls \cap FoundUrls = {}

\* C7 witness: a run that rejected a URL repeated in the feed and a stored
\* URL, and admitted another
C7_Witness ==
    /\ ScanOver /\ processed_news # <<>>
    /\ \E i \in 1..Len(n_log) : n_log[i] = "dup"
    /\ \E i \in 1..Len(n_log) : n_log[i] = "found"

\* C8: once more than 100 rows have been rejected with none admitted, no
\* further row is examined or looked up
C8_EarlyExit ==
    [][(n_pc = "scan" /\ duplicate_count > DupLimit /\ new_news_count = 0)
          => (n_idx' = n_idx /\ n_log' = n_log)]_vars

\* ----------------------------------------- claims on the index collector
\* the original call has returned
MainReturned == i_main.done

\* the original call was for today, on a weekday before the cutoff hour, and
\* each of the 5 indexes was fetched and gave no row for the day
AllEmptyToday ==
    /\ MainReturned
    /\ i_req.start_date = TodayStr
    /\ i_main.s = NumIndexes /\ i_main.h = 0
    /\ i_weekday < Saturday
    /\ i_main.hour < CutoffHour

\* what the call then does: it returns True with no row upserted, a retry
\* task exists, and the retried collection does not run before the delay of
\* the original call has elapsed
RetryArranged ==
    /\ i_main.result = TRUE
    /\ i_main.rows = 0
    /\ (i_ctx = "main" => index_data = {})
    /\ i_sched >= 1
    /\ (i_ctx = "retry" => i_hour >= i_main.hour + retry_delay_hours)

\* C9 as stated: at any hour before 20:00 on a weekday, an all-empty run for
\* today reports success, upserts nothing, schedules a retry, and makes no
\* second fetch before the delay has elapsed
C9_Original == AllEmptyToday => RetryArranged

\* C9 amended: the same from 18:00 on, the first hour at which
\* _should_retry_index_collection allows a retry
C9_RetryScheduled ==
    (AllEmptyToday /\ i_main.hour >= RetryFromHour) => RetryArranged

\* C9 witness: the retried collection is running, an hour or more after an
\* all-empty run for today made between 18:00 and 20:00 on a weekday
C9_Witness ==
    /\ AllEmptyToday /\ i_main.hour >= RetryFromHour
    /\ i_ctx = "retry" /\ i_pc = "loop" /\ i_i > 1
    /\ i_hour >= i_main.hour + retry_delay_hours

\* C10: one original call leads to at most one background retry task
C10_OneShot == i_sched <= 1

\* ------------------------------------------------- claims on safe_request
\* the first invocation of the script that returns a value, or one more than
\* the script's length if none does
FirstValue ==
    LET hits == {k \in 1..MaxOutcomes : r_script[k] \in Values}
    IN  IF hits = {} THEN MaxOutcomes + 1
        ELSE CHOOSE k \in hits : \A j \in hits : k <= j

\* C11: safe_request invokes the wrapped function at most 3 times, sleeps 5
\* seconds between two invocations and at no other time, retries after any
\* exception, returns the first value returned without a further invocation,
\* and raises the last exception once 3 invocations have raised
C11_SafeRequest ==
    /\ r_calls <= retry_tries
    /\ \A j \in 1..Len(r_events) :
          r_events[j] = IF j % 2 = 1 THEN Invoked ELSE retry_delay
    /\ r_pc = "try" => Len(r_events) = 2 * r_calls
    /\ r_pc \in {"returned", "raised"} => Len(r_events) = 2 * r_calls - 1
    /\ r_pc = "returned" =>
          /\ r_calls = FirstValue
          /\ r_out = r_script[r_calls]
    /\ r_pc = "raised" =>
          /\ r_calls = retry_tries /\ FirstValue > retry_tries
          /\ r_out = r_script[retry_tries]
    /\ r_pc = "try" => r_calls < FirstValue

\* C11 witness: a request that returned at the third invocation, after two
\* exceptions of different kinds and two sleeps
C11_Witness ==
    /\ r_pc = "returned" /\ r_calls = retry_tries
    /\ r_script[1] # r_script[2]
    /\ r_events = <<Invoked, retry_delay, Invoked, retry_delay, Invoked>>

\* ------------------------------------ claims on a stock whose fetch fails
\* the stock's fetch raised at every attempt of safe_request
Exhausted(s) ==
    /\ h_log[s].resolved /\ ~h_log[s].skipped /\ ~h_log[s].answered
    /\ h_log[s].fetches # {}
    /\ (h_i > s \/ h_pc = "done")

\* the step in which collect_stock_history returns False after the third
\* raising attempt
ExhaustingStep ==
    /\ h_pc = "fetch" /\ h_attempt = retry_tries - 1
    /\ ~h_log'[StockList[h_i]].answered

\* C12: when the fetch of a stock has raised at each of its attempts, the
\* stock is not counted as a success, nothing is upserted for it and the
\* table is left as it was, and the loop goes on to the next stock, so that
\* a run that read the stock list ends with every stock examined
C12_FailedStock ==
    /\ [][ExhaustingStep =>
            /\ daily_quote' = daily_quote
            /\ success_count' = success_count
            /\ h_pc' = "resolve" /\ h_i' = h_i + 1]_vars
    /\ [](\A s \in 1..NumStocks :
            (h_pc # "off" /\ Exhausted(s)) =>
                /\ ~h_log[s].ok /\ h_log[s].rows = {}
                /\ success_count <= Cardinality({t \in 1..NumStocks : h_log[t].ok})
                /\ (h_pc = "done" =>
                       \A t \in 1..NumStocks : h_log[t].resolved))

\* C12 witness: a finished run in which the first stock's fetch failed three
\* times and the second stock was collected with rows
C12_Witness ==
    /\ h_pc = "done"
    /\ Exhausted(1)
    /\ h_log[2].answered /\ h_log[2].ok /\ h_log[2].rows # {}
    /\ h_result = TRUE

\* ------------------------------------------- claims on a collector's call
\* C13: a provider response of zero rows is reported as a success, with
\* nothing written
C13_EmptyIsSuccess ==
    (c_pc = "done" /\ c_fetched /\ c_response = <<>>) =>
        (c_result = TRUE /\ c_sent = <<>> /\ c_table = {})

\* a cell of the response is malformed, infinite or empty
Defective(row) == row.num \in {Inf, Malformed, EmptyStr} \/ ~IsDate(row.date)

\* C14: on a response with malformed, infinite or empty cells the
\* normalisation does not raise, every row is handed to the storage, and the
\* numeric field of a row whose cell was not a number is null
C14_NormalizeTotal ==
    (c_pc = "done" /\ c_fetched /\ c_response # <<>>
        /\ \E j \in 1..Len(c_response) : Defective(c_response[j])) =>
        /\ ~c_raised
        /\ Len(c_sent) = Len(c_response)
        /\ \A j \in 1..Len(c_sent) :
              c_response[j].num # 1 => c_sent[j].close = None

\* ------------------------------------------ claims on fund-flow ranking
\* the indicator was fetched with rows and its upsert succeeded
IndicatorOk(j) == f_log[j].outcome = "upserted"

\* C15: the indicators are handled in the order of the list, one after the
\* other whatever happened to the earlier ones; the rows of an indicator whose
\* upsert succeeded are stored under that indicator; the call returns True
\* exactly when every indicator was fetched with rows and upserted
C15_Independent ==
    /\ f_pc \in {"loop", "done"} =>
          /\ Len(f_log) = f_k - 1
          /\ \A j \in 1..Len(f_log) : f_log[j].indicator = j
          /\ overall_success = \A j \in 1..Len(f_log) : IndicatorOk(j)
          /\ \A j \in 1..Len(f_log) :
                /\ \A r \in Range(f_log[j].sent) : r.indicator = j
                /\ IndicatorOk(j) => Range(f_log[j].sent) \subseteq stock_fund_flow_rank
    /\ f_pc = "done" =>
          /\ Len(f_log) = NumIndicators
          /\ f_result = \A j \in 1..NumIndicators : IndicatorOk(j)

\* C15 witness: a finished call whose first indicator was stored, whose
\* second raised, whose third failed in the upsert and whose fourth was stored
C15_Witness ==
    /\ f_pc = "done" /\ f_result = FALSE
    /\ IndicatorOk(1) /\ f_log[1].sent # <<>>
    /\ f_log[2].outcome = "raised"
    /\ f_log[3].outcome = "failed"
    /\ IndicatorOk(4) /\ f_log[4].sent # <<>>

\* the stock codes of the rows of a DataFrame
Codes(df) == {df[j].stock_code : j \in 1..Len(df)}

\* C16: the rows handed to upsert for an indicator carry exactly the stock
\* codes of the named rows of the response that get_stock_list gave in that
\* pass, which are codes of stock_basic; no other code reaches the table
C16_ValidCodes ==
    /\ \A j \in 1..Len(f_log) :
          /\ f_log[j].valid \subseteq f_basic
          /\ Codes(f_log[j].sent) = Codes(DropNa(f_log[j].fetched)) \cap f_log[j].valid
    /\ \A r \in stock_fund_flow_rank : r.stock_code \in f_basic

\* C16 witness: a response with a stock that is in stock_basic and one that
\* is not, of which only the first was handed to upsert and stored
C16_Witness ==
    \E j \in 1..Len(f_log) :
        /\ IndicatorOk(j)
        /\ Codes(f_log[j].fetched) \ f_basic # {}
        /\ Codes(f_log[j].sent) # {}
        /\ \E r \in stock_fund_flow_rank : r.indicator = j

\* ------------------------------------------------- claims on the jobs
\* collect_latest_quotes has returned to collect_today_data
QuotesReturned == t_job = "today" /\ t_pc # "quotes"

\* C17: collect_latest_quotes calls the batch collector at most 3 times,
\* sleeps 300 seconds after a failed call that is not the third and at no
\* other time, returns True at the first successful call and False after
\* three failed calls, makes no other call, and comes to an end
C17_QuotesAttempts ==
    /\ [](t_job = "today" =>
            /\ t_attempt <= 3 /\ Len(t_qlog) = t_attempt
            /\ \A j \in 1..Len(t_qevents) :
                  t_qevents[j] = IF j % 2 = 1 THEN BatchCall ELSE 300
            /\ \A j \in 1..(t_attempt - 1) : t_qlog[j] # "upserted"
            /\ t_pc = "quotes" =>
                  /\ Len(t_qevents) = 2 * t_attempt
                  /\ \A j \in 1..t_attempt : t_qlog[j] # "upserted"
            /\ QuotesReturned =>
                  /\ Len(t_qevents) = 2 * t_attempt - 1
                  /\ t_success["stock"] = (t_qlog[t_attempt] = "upserted")
                  /\ ~t_success["stock"] => t_attempt = 3)
    /\ (t_pc = "quotes" ~> QuotesReturned)

\* C17 witness: the call returned True at its third attempt, after two
\* failed attempts each followed by a sleep
C17_Witness ==
    /\ QuotesReturned /\ t_success["stock"] /\ t_attempt = 3
    /\ t_qevents = <<BatchCall, 300, BatchCall, 300, BatchCall>>
    /\ daily_quote # {}

\* C18: collect_today_data runs its four collectors in the order latest
\* quotes, index, hot rank, hot up, each once, then the summary, whatever the
\* collectors return or raise; the overall status is success exactly when
\* all four returned True; the job comes to its end
C18_TodaySequence ==
    /\ [](t_job = "today" =>
            /\ t_events = SubSeq(<<"stock", "index", "hot_rank", "hot_up", "notify">>,
                                 1, Len(t_events))
            /\ Len(t_log) = (IF t_pc = "done" THEN Len(t_events) - 1
                             ELSE Len(t_events))
            /\ t_pc = "done" =>
                  /\ Len(t_events) = 5
                  /\ t_overall = \A j \in 1..4 : t_log[j] = "true")
    /\ (t_job = "today" ~> t_pc = "done")

\* C18 witness: a finished job whose quotes failed and whose index collector
\* raised, and whose two later collectors returned True
C18_Witness ==
    /\ t_job = "today" /\ t_pc = "done"
    /\ t_log = <<"false", "raise", "true", "true">>
    /\ ~t_overall

\* the success flags that the collectors' outcomes alone give
FlagsOf(job, log) ==
    [k \in Tasks |->
        IF job = "today"
        THEN (k = "stock" /\ log[1] = "true") \/ (k = "index" /\ log[2] = "true")
                \/ (k = "hot_rank" /\ log[3] = "true")
                \/ (k = "hot_up" /\ log[4] = "true")
        ELSE k = job /\ log[1] = "true"]

\* C19: whatever the notifier does, a finished job has let no exception out
\* and has the success flags its collectors' outcomes give, and the step
\* that notifies changes neither these flags nor the stored rows
C19_NotifyFrame ==
    /\ [](t_pc = "done" =>
            /\ ~t_propagated
            /\ t_success = FlagsOf(t_job, t_log)
            /\ (t_job = "today" => t_overall = OverallSuccess(t_success)))
    /\ [][t_pc = "notify" =>
            /\ t_pc' = "done"
            /\ daily_quote' = daily_quote /\ stock_news' = stock_news
            /\ index_data' = index_data
            /\ t_success' = t_success /\ t_log' = t_log]_vars

\* C19 witness: collect_today_data stored the snapshot, could not build its
\* summary, and its fallback notice failed as well
C19_Witness ==
    /\ t_job = "today" /\ t_pc = "done"
    /\ t_notified = <<"notice", "failed">>
    /\ t_success["stock"] /\ daily_quote # {}

\* -------------------------------------------------- claims on the pacing
\* C20: no more than batch_size history fetches are issued in a row without
\* a batch_delay pause between them
C20_PauseEveryBatch == p_run <= pace_batch_size

\* --------------------------------------- claims on the pacing configuration
\* C21: a set_delay_config call on an instance leaves that instance with
\* exactly the four values passed and every other instance's configuration
\* as it was; a smart_delay call changes no configuration and paces with the
\* values its instance holds, which are those of the last set_delay_config
\* on that instance (or of its construction)
C21_PerInstance ==
    [][/\ d_op'.op = "set" =>
            /\ d_cfg'[d_op'.inst] = d_op'.cfg
            /\ \A o \in Instances \ {d_op'.inst} : d_cfg'[o] = d_cfg[o]
       /\ d_op'.op = "delay" =>
            /\ d_cfg' = d_cfg
            /\ d_op'.slept >= d_cfg[d_op'.inst].base_delay
            /\ d_op'.slept <= d_cfg[d_op'.inst].base_delay
                                + d_cfg[d_op'.inst].random_delay
            /\ d_op'.paused =
                  IF d_op'.index > 0
                        /\ d_op'.index % d_cfg[d_op'.inst].batch_size = 0
                  THEN d_cfg[d_op'.inst].batch_delay ELSE 0]_vars

\* an instance whose configuration was set paces with it, batch pause
\* included, while another instance still holds its constructed values
C21_Witness ==
    /\ d_op.op = "delay" /\ d_op.paused > 0
    /\ d_cfg[d_op.inst] # Constructed(d_op.inst)
    /\ \E o \in Instances \ {d_op.inst} :
          d_cfg[o] = Constructed(o) /\ d_cfg[o] # d_cfg[d_op.inst]

\* ------------------------------------ claims on the result of a whole run
\* the entities of the finished run whose collector returned True
Succeeded == {j \in 1..Len(m_log) : m_log[j].ok}

\* C22 as stated: a finished run during which the storage accepted at least
\* one row is reported as success
C22_Original == (m_pc = "done" /\ m_written > 0) => m_result

\* C22: a finished run is reported as success whenever at least one entity
\* was collected without error (its fetch returned and every batch of its
\* upsert was accepted), whatever the other entities did; a run in which no
\* entity was, and no retry was arranged, is reported as failure even when
\* rows of a partly failed upsert were written
C22_PartialSuccess ==
    m_pc = "done" =>
        /\ m_success_count = Cardinality(Succeeded)
        /\ (Succeeded # {} => m_result)
        /\ (Succeeded = {} => ~m_result)

\* a run reported as success although an entity's fetch raised and another
\* entity's upsert failed after its first batch was written
C22_Witness ==
    /\ m_pc = "done" /\ m_result
    /\ \E j \in 1..Len(m_log) : m_log[j].outcome = "raise"
    /\ \E j \in 1..Len(m_log) : ~m_log[j].ok /\ m_log[j].written > 0
    /\ \E j \in 1..Len(m_log) : m_log[j].ok /\ m_log[j].written > 0

\* ------------------------------------------- claims on the cap of a news run
\* the places in the feed of the rows the run has admitted so far
AdmittedAt ==
    SelectSeq([j \in 1..Len(n_log) |-> j],
              LAMBDA j : n_log[j] \in {"absent", "raised"})

\* C23: a collect_news run examines the rows of the feed from the first one
\* on and never more than max_process_count of them: every storage lookup
\* and every admission is for one of the first max_process_count rows
C23_ExamineCap ==
    n_pc \in {"scan", "upsert", "done"} =>
        /\ n_idx <= n_max /\ n_idx <= Len(n_feed)
        /\ Len(n_log) = n_idx
        /\ Len(AdmittedAt) = Len(processed_news)
        /\ \A j \in 1..Len(AdmittedAt) :
              /\ AdmittedAt[j] <= n_max
              /\ processed_news[j].url = UrlOf(n_feed[AdmittedAt[j]])

\* a finished run with the default cap on a feed that is longer than the cap
\* and has, beyond the cap, a URL that is not stored
C23_Witness ==
    /\ n_pc = "done" /\ n_max = DefaultMaxProcess
    /\ Len(n_feed) > n_max /\ n_idx = n_max
    /\ \E j \in (n_max + 1)..Len(n_feed) : n_feed[j].url > MaxOld

\* ------------------------------------------ claims on the purge of old news
\* the rows of stock_news written more than a week ago
OldNews == {r \in stock_news : r.create_time < Now}

\* C24 as stated: no row older than a week survives a news run that fetched
\* the feed and went through its rows
C24_Original == (n_pc = "done" /\ n_idx > 0) => OldNews = {}

\* C24: the purge is part of the runs that admitted at least one item and
\* upserted it: after such a run, unless the delete raised, stock_news holds
\* no row older than a week; a run that returns False (nothing admitted, the
\* fetch or the upsert failed) calls no purge and leaves the old rows
C24_PurgeOnSuccess ==
    n_pc = "done" =>
        /\ (n_cleanup = "deleted" => OldNews = {})
        /\ (n_result <=> n_cleanup # "none")
        /\ (~n_result => OldNews = {r \in StoredNews : r.create_time < Now})

\* a successful run after which the old row is gone, although its URL was
\* not in the batch
C24_Witness ==
    /\ n_pc = "done" /\ n_result /\ n_cleanup = "deleted"
    /\ processed_news # <<>>
    /\ \A j \in 1..Len(processed_news) :
          processed_news[j].url \notin {r.url : r \in StoredNews \ stock_news}

\* ------------------------------- claims on two interleaved index collections
\* the rows either call has had accepted by the storage
RaceWritten == x_written["retry"] \cup x_written["manual"]

IndexKey(r) == KeyOf(r, ConflictColumns("index_data"))

\* C25: whatever the interleaving of the two calls, index_data never holds
\* two rows with the same (index_code, trade_date), every row it holds is,
\* whole, a row one of the two calls upserted, and every key a call upserted
\* has its row
C25_RaceSafe ==
    /\ \A r1 \in index_data, r2 \in index_data :
          IndexKey(r1) = IndexKey(r2) => r1 = r2
    /\ index_data \subseteq RaceWritten
    /\ \A w \in RaceWritten : \E r \in index_data : IndexKey(r) = IndexKey(w)

\* both calls have ended after writing in turns, and for some index both had
\* a different row accepted
C25_Witness ==
    /\ x_pc = [run \in Runs |-> "done"]
    /\ x_switches = 2
    /\ \E a \in x_written["retry"], b \in x_written["manual"] :
          IndexKey(a) = IndexKey(b) /\ a # b
    /\ Cardinality(index_data) = RaceIndexes

\* ------------------------------ claims on two interleaved history runs
\* both calls read the same watermark for stock s, fetched the window it
\* gives and had their upserts accepted
SameWindow(s) ==
    /\ \A p \in Procs : y_log[p][s].answered /\ y_log[p][s].ok
    /\ y_log[1][s].seen = y_log[2][s].seen
    /\ y_log[1][s].window = y_log[2][s].window

QuoteKeys(rows) == {<<r.stock_code, r.trade_date>> : r \in rows}

\* the (stock_code, trade_date) pairs a single call leaves for stock s when
\* it fetches the window w: those stored before and the provider's days of w
SingleRunKeys(s, w) ==
    QuoteKeys({r \in y_before : r.stock_code = s})
        \cup QuoteKeys(Range(ProviderRows(s, w[1], w[2], 1)))

\* C26: whatever the interleaving, daily_quote never holds two rows with the
\* same (stock_code, trade_date); and once both calls are over, a stock for
\* which both read the same watermark and upserted the same window has
\* exactly the rows a single call leaves: the rows stored before outside the
\* window untouched, and one row, from one of the two calls, for each of the
\* provider's days of the window
C26_SameAsSingleRun ==
    /\ \A r1 \in daily_quote, r2 \in daily_quote :
          (r1.stock_code = r2.stock_code /\ r1.trade_date = r2.trade_date)
              => r1 = r2
    /\ (\A p \in Procs : y_pc[p] = "done") =>
          \A s \in 1..PairStocks :
              SameWindow(s) =>
                  LET w == y_log[1][s].window
                      now == {r \in daily_quote : r.stock_code = s}
                  IN  /\ QuoteKeys(now) = SingleRunKeys(s, w)
                      /\ \A r \in now :
                            IF <<r.stock_code, r.trade_date>> \in
                                  QuoteKeys(Range(ProviderRows(s, w[1], w[2], 1)))
                            THEN r.close \in Procs
                            ELSE r \in y_before

\* both calls are over; for a stock with rows stored before, both resumed
\* from the same watermark and upserted the same window of several days
C26_Witness ==
    /\ \A p \in Procs : y_pc[p] = "done"
    /\ \E s \in 1..PairStocks :
          /\ SameWindow(s)
          /\ y_log[1][s].seen # None
          /\ Len(ProviderRows(s, y_log[1][s].window[1],
                              y_log[1][s].window[2], 1)) > 1
          /\ \E r \in daily_quote : r.stock_code = s /\ r.close = 0

\* --------------------------------------- claims on the collector boundary
\* C27: whatever calls of an entry point meet a provider failure or a
\* storage failure, no exception leaves the entry point; its call ends by
\* returning True or False, and it returns False when a failure made it
\* leave through its try/except
C27_Contained ==
    /\ b_pc # "escaped"
    /\ b_out \in BOOLEAN
    /\ (b_pc = "returned" /\ b_failed # {}
          /\ \E j \in b_failed : Calls(b_entry)[j].effect = "return_false")
       => b_out = FALSE

\* an entry point has returned after a failed storage read, a failed fetch
\* and a failed storage write
C27_Witness ==
    /\ b_pc = "returned" /\ b_entry = "collect_all_stocks_history"
    /\ b_failed = {2, 3, 5} /\ b_out = FALSE

\* ------------------------------------------ claims on rows without their key
\* C28: no row of the feed whose link cell is empty or missing is among the
\* items handed to upsert
C28_KeylessDropped ==
    \A j \in 1..Len(AdmittedAt) :
        n_feed[AdmittedAt[j]].url \notin {EmptyStr, NaN, None}

\* ------------------------------------- claims on backfills and daily quotes
\* the trading days of the request the provider has for a stock
ProviderDays(req) ==
    {d \in market : req.start_date <= strftime(d) /\ strftime(d) <= req.end_date}

\* the days stored for a stock
StoredDays(stock_code) ==
    {r.trade_date : r \in {q \in daily_quote : q.stock_code = stock_code}}

\* C29: a stock the resume check skipped has every provider trading day of
\* the request stored
C29_SkipImpliesComplete ==
    h_pc \in {"resolve", "fetch", "done"} =>
        \A st \in 1..NumStocks :
            (h_log[st].skipped /\ h_log[st].seen # None)
                => ProviderDays(h_req) \subseteq StoredDays(st)

\* the trading days of the long request the provider has
LongProviderDays ==
    {d \in LongMarket : /\ z_req.start_date <= strftime(d)
                        /\ strftime(d) <= z_req.end_date}

\* C30: after a first run that left a stock partially written, a resumed run
\* for the same request whose fetch and upsert for the stock succeed leaves
\* every provider trading day of the request stored for it
C30_RestartCompletes ==
    (z_run = 2 /\ z_pc = "done") =>
        \A st \in 1..RestartStocks :
            (z_log[1][st] = "partial" /\ z_log[2][st] \in {"ok", "empty"})
                => LongProviderDays \subseteq StoredDays(st)

\* the same for a stock the resumed run skipped
RestartSkippedComplete ==
    (z_run = 2 /\ z_pc = "done") =>
        \A st \in 1..RestartStocks :
            (z_log[1][st] = "partial" /\ z_log[2][st] = "skipped")
                => LongProviderDays \subseteq StoredDays(st)

\* with the rows returned oldest first the resumed run completes the stock
AscendingRestartCompletes ==
    z_order = "ascending" => C30_RestartCompletes /\ RestartSkippedComplete

\* ------------------------------------------- claims on the index change
\* the number of a stored day in the provider's series
SeriesIndex(d) == CHOOSE n \in 1..NumDays : DayAt(n) = d

\* C31: every row the index collector upserts carries the difference of its
\* close to the close of the preceding day of the provider's series, when
\* the series has a preceding day
C31_ChangeFromSeries ==
    \A j \in 1..Len(e_sent) :
        LET n == SeriesIndex(e_sent[j].trade_date)
        IN  n > 1 => e_sent[j].change =
                         CloseAt(e_close, n) - CloseAt(e_close, n - 1)

\* a call never replaces a stored change by a null one
ChangeNeverNulled ==
    [][\A r \in index_data :
          r.change \notin {None, NaN} =>
              \A q \in index_data' :
                  (q.index_code = r.index_code /\ q.trade_date = r.trade_date)
                      => q.change \notin {None, NaN}]_vars

\* ------------------------------------------ claims on the hot snapshots
\* C32: after a successful collect_hot_rank or collect_hot_up the rows
\* stored for today are exactly the rows of the snapshot just collected
C32_SnapshotReplaced ==
    (o_last # <<>> /\ o_last.ok /\ o_last.day = o_today) =>
        {r \in HotTable(o_last.name) : r.trade_date = DayAt(o_today)}
            = Range(o_last.df)

\* ------------------------------------------- claims on the trade calendar
\* every calendar date of the years requested
SpanDates ==
    {dt \in (q_req.start_year..q_req.end_year) \X (1..12) \X (1..31) :
        dt[3] <= DaysInMonth(dt[1], dt[2])}

\* C33: a call with a non-empty provider answer hands to upsert exactly one
\* row for every date from 1 January of start_year to 31 December of
\* end_year, flagged as a trade day iff the provider lists the date, and
\* these rows are stored when the upsert succeeds; a call with an empty
\* answer returns False and writes nothing
C33_FullCalendar ==
    (q_pc = "done" /\ q_fetched) =>
        IF q_answer = {}
        THEN ~q_result /\ q_sent = <<>> /\ trade_calendar = q_before
        ELSE /\ {q_sent[j].calendar_date : j \in 1..Len(q_sent)} = SpanDates
             /\ Len(q_sent) = Cardinality(SpanDates)
             /\ \A j \in 1..Len(q_sent) :
                   q_sent[j].is_trade_day =
                       (q_sent[j].calendar_date \in q_answer)
             /\ q_result => Range(q_sent) \subseteq trade_calendar

C33_Witness ==
    /\ q_pc = "done" /\ q_fetched /\ q_result
    /\ q_req.start_year < q_req.end_year
    /\ Len(q_sent) = 365 + 366
    /\ \E j \in 1..Len(q_sent) : q_sent[j].is_trade_day
    /\ \E j \in 1..Len(q_sent) : ~q_sent[j].is_trade_day
    /\ q_before # {}

\* ------------------------------------------- claims on the retry thread
\* the retry has fetched every index with the dates it was scheduled with
RetryMade ==
    /\ j_thread.state = "finished"
    /\ j_call.hour >= j_thread.due
    /\ j_call.retry_delay_hours = retry_delay_again
    /\ j_fetched = {<<k, j_thread.start_date, j_thread.end_date>> :
                       k \in 1..NumIndexes}

\* C34: a scheduled retry is made, not before its delay has passed, for all
\* indexes and with the dates it was scheduled with, unless the process
\* exits first; a thread whose process has exited makes no fetch
C34_RetryUnlessExit ==
    /\ (j_thread.state = "sleeping") ~> (RetryMade \/ ~j_alive)
    /\ [][~j_alive => j_fetched' = j_fetched /\ j_call' = j_call]_vars
    /\ []((~j_alive /\ j_thread.state = "sleeping") => j_fetched = {})

C34_Witness ==
    /\ j_alive /\ RetryMade
    /\ j_thread.delay_hours = retry_delay_hours
    /\ j_mode = "run" /\ j_steps > 0

\* ------------------------------------------- claims on the stored quotes
\* the (stock_code, trade_date) keys of a daily_quote table
KeysOf(table) == {<<r.stock_code, r.trade_date>> : r \in table}

\* C35: no step of a backfill or of the daily collection lowers the latest
\* stored trade_date of a stock or removes the row of a stored key
C35_WatermarkMonotone ==
    [][/\ KeysOf(daily_quote) \subseteq KeysOf(daily_quote')
       /\ \A st \in 1..NumStocks :
             PersistedLatest(daily_quote, st)
                 <= PersistedLatest(daily_quote', st)]_vars

C35_Witness ==
    /\ h_runs = 2 /\ k_calls = 1 /\ h_pc = "done"
    /\ \E st \in 1..NumStocks : h_log[st].answered /\ ~h_log[st].ok
    /\ \E st \in 1..NumStocks : h_log[st].answered /\ h_log[st].ok
    /\ Cardinality(daily_quote) > NumStocks

\* --------------------------- claims on collect_all_stocks_history's result
\* the stocks of the run that were fetched with collect_stock_history
\* returning True
CollectedOk == {st \in 1..NumStocks : h_log[st].answered /\ h_log[st].ok}

\* C36: a finished run returned True iff some stock was collected, not
\* skipped, with collect_stock_history returning True; a run whose stock
\* list came back empty returned False without a provider fetch
C36_TrueIffCollected ==
    h_pc = "done" =>
        /\ h_result <=> CollectedOk # {}
        /\ h_i = 0 => /\ ~h_result
                      /\ \A st \in 1..NumStocks : h_log[st].fetches = {}

C36_Witness ==
    /\ h_pc = "done" /\ h_runs = 2 /\ h_req.enable_resume
    /\ skip_count = NumStocks /\ ~h_result
    /\ \A st \in 1..NumStocks : h_log[st].skipped

\* ------------------------------------- claims on an unreadable watermark
\* C37: a stock whose watermark read gave None is not skipped and is
\* fetched only with the declared start and end dates, whatever is stored
C37_NoWatermarkFromStart ==
    \A st \in 1..NumStocks :
        (h_pc # "idle" /\ h_req.enable_resume /\ h_log[st].resolved
            /\ h_log[st].seen = None)
        => /\ ~h_log[st].skipped
           /\ h_log[st].fetches \subseteq {<<h_req.start_date, h_req.end_date>>}
           /\ (h_pc = "fetch" /\ StockList[h_i] = st)
                  => h_start = h_req.start_date
           /\ (h_pc \in {"resolve", "done"} /\ h_i > st)
                  => h_log[st].fetches # {}

C37_Witness ==
    \E st \in 1..NumStocks :
        /\ h_req # <<>> /\ h_req.enable_resume /\ h_log[st].resolved
        /\ h_log[st].seen = None
        /\ h_log[st].L # None /\ h_log[st].L >= h_req.end_date
        /\ h_log[st].answered
        /\ h_log[st].fetches = {<<h_req.start_date, h_req.end_date>>}

\* ------------------------------------------- claims on get_stock_list
\* C38: a call whose page reads all succeeded returns every stock code of
\* the unchanged table exactly once
C38_EveryCodeOnce ==
    (u_pc = "done" /\ ~u_failed) =>
        /\ Len(u_result) = u_rows
        /\ Range(u_result) = 1..u_rows

\* the same when the store answers every page read in one order
StableOrderListsOnce ==
    (\A j \in 1..Len(u_orders) : u_orders[j] = u_orders[1])
        => C38_EveryCodeOnce

\* a call ends after at most one read more than the table has pages, and a
\* failed read gives the empty list
ListEndsAndFailsEmpty ==
    /\ Len(u_orders) <= (u_rows \div page_size) + 1
    /\ (u_pc = "done" /\ u_failed) => u_result = <<>>

\* ------------------------------- claims on the fund-flow rank stock filter
\* the indicators whose provider rows met an empty stock list
FilteredOut ==
    {j \in 1..Len(f_log) : f_log[j].fetched # <<>> /\ f_log[j].valid = {}}

\* C39: an indicator whose provider rows meet an empty stock list sends no
\* row to the store and counts as succeeded; a call made of such indicators
\* returns True with nothing written
C39_EmptyListStillSucceeds ==
    /\ \A j \in FilteredOut :
          f_log[j].sent = <<>> /\ f_log[j].outcome = "upserted"
    /\ FilteredOut = 1..Len(f_log) =>
          /\ stock_fund_flow_rank = {}
          /\ overall_success
          /\ f_pc = "done" => f_result

C39_Witness ==
    /\ f_pc = "done" /\ f_result /\ stock_fund_flow_rank = {}
    /\ FilteredOut = 1..NumIndicators
    /\ f_basic # {}
    /\ \E j \in FilteredOut : DropNa(f_log[j].fetched) # <<>>

\* ------------------------------------------ claims on resume disabled
\* C40: in a run with enable_resume = False no stock is skipped and no
\* watermark is seen; the stocks are taken in list order, each fetched with
\* the declared start and end dates and no others, whatever is stored
C40_NoResumeFetchesAll ==
    (h_pc \notin {"idle", "off"} /\ ~h_req.enable_resume) =>
        /\ skip_count = 0
        /\ \A st \in 1..NumStocks :
              /\ ~h_log[st].skipped /\ h_log[st].seen = None
              /\ h_log[st].fetches \subseteq
                    {<<h_req.start_date, h_req.end_date>>}
              /\ (st < h_i /\ h_i <= NumStocks + 1)
                    => h_log[st].fetches # {}
              /\ st > h_i => h_log[st].fetches = {}
        /\ h_pc = "fetch" => h_start = h_req.start_date

C40_Witness ==
    /\ h_pc = "done" /\ h_req # <<>> /\ ~h_req.enable_resume
    /\ h_runs = 2 /\ h_i = NumStocks + 1
    /\ \A st \in 1..NumStocks :
          /\ h_log[st].L # None /\ h_log[st].L >= h_req.end_date
          /\ h_log[st].fetches = {<<h_req.start_date, h_req.end_date>>}

====
